---- MODULE Spec2Model ----
(***************************************************************************)
(* Transaction signing of core/src/apps/wallet/sign_tx: the Bitcoin signer *)
(* (signing.py), its Decred subclass (decred.py) and the BIP-143 hasher    *)
(* (segwit_bip143.py), as one state machine.                               *)
(*                                                                         *)
(* The signer is a coroutine.  Every action below is one resumption of it: *)
(* the host (or the user) answers the request the signer is suspended on,  *)
(* and the signer runs up to its next suspension, its return or the first  *)
(* exception.  The signer object's fields are the record `self`; the       *)
(* coroutine's position and its live locals are the record `co`.           *)
(*                                                                         *)
(* Digests are idealised as collision free: a hash writer is the sequence  *)
(* of the items written into it, and two digests are equal iff these       *)
(* sequences are equal.                                                    *)
(***************************************************************************)
EXTENDS Integers, Sequences, FiniteSets, TLC

VARIABLES
    self,   \* the fields of the Bitcoin / Decred object (signing.py:73-96)
    co,     \* the coroutine: pc (the await it is suspended on) and locals
    wire,   \* every TxRequest sent to the host so far, in order
    ui,     \* every user prompt issued so far, with the user's answer
    host,   \* what the host answered in phase 1, how it deviated in phase 2,
            \* and the meta of the previous transaction it streamed last
    err     \* the exception that ended the session, or NoError

vars == <<self, co, wire, ui, host, err>>

---------------------------------------------------------------------------
(* Bounds of the model.                                                    *)

MaxInputs == 2      \* tx.inputs_count ranges over 0..MaxInputs
MaxOutputs == 2     \* tx.outputs_count ranges over 0..MaxOutputs
MaxAmount == 2      \* amounts range over 0..MaxAmount
MaxTamper == 1      \* phase-2 replies that differ from the phase-1 reply

---------------------------------------------------------------------------
(* Program constants.                                                      *)

BIP32_WALLET_DEPTH == 2
BIP32_CHANGE_CHAIN == 1
BIP32_MAX_LAST_ELEMENT == 1000000

---------------------------------------------------------------------------
(* Python values.                                                          *)

None == <<-1>>              \* None where a list / bytes value is expected
NoneInt == -1               \* None where an int is expected
NoError == [kind |-> "none", msg |-> ""]

\* l[:-_BIP32_WALLET_DEPTH]
DropWalletDepth(l) ==
    IF Len(l) <= BIP32_WALLET_DEPTH THEN <<>>
    ELSE SubSeq(l, 1, Len(l) - BIP32_WALLET_DEPTH)

\* l[-k] is an IndexError when len(l) < k
HasIndexFromEnd(l, k) == Len(l) >= k
FromEnd(l, k) == l[Len(l) - k + 1]

\* `not x` for an optional int: None and 0 are falsy
Falsy(x) == x = NoneInt \/ x = 0

RECURSIVE SumSeq(_)
SumSeq(s) == IF s = <<>> THEN 0 ELSE Head(s) + SumSeq(Tail(s))

---------------------------------------------------------------------------
(* The session's parameters: the signer class, the coin record and the     *)
(* SignTx header.  The coin record is configuration consumed by the core;  *)
(* every combination of its flags is a record the core can be handed.      *)
(* The build is the universal one (utils.BITCOIN_ONLY is False).           *)

Classes == {"Bitcoin", "Decred"}

Coin(segwit, force_bip143, overwintered, negative_fee) ==
    [segwit |-> segwit, force_bip143 |-> force_bip143,
     overwintered |-> overwintered, negative_fee |-> negative_fee,
     cashaddr |-> FALSE, maxfee_kb |-> 8]

Coins ==
    {Coin(TRUE, FALSE, FALSE, FALSE),   \* segwit, legacy signatures
     Coin(FALSE, FALSE, FALSE, FALSE),  \* legacy signatures only
     [Coin(FALSE, TRUE, FALSE, FALSE)   \* BIP-143 signatures for every input,
         EXCEPT !.cashaddr = TRUE],     \* addresses with a cashaddr prefix
     Coin(TRUE, TRUE, FALSE, FALSE),
     Coin(FALSE, FALSE, TRUE, FALSE),   \* overwintered
     Coin(TRUE, FALSE, TRUE, FALSE),
     Coin(FALSE, FALSE, TRUE, TRUE)}    \* fees may be negative

\* tx.version: 3 and 4 are the versions an overwintered coin supports
Versions(coin) == IF coin.overwintered THEN {1, 3, 4} ELSE {1}

\* The SignTx headers of a session.  The version and the lock time are read
\* by init_hash143, by the locktime prompt and by the serialization only;
\* they vary where the host varies the inputs and are fixed elsewhere.
SignTxs(coin, profile) ==
    IF profile = "inputs"
    THEN [version : Versions(coin), inputs_count : 0..MaxInputs,
          outputs_count : 0..MaxOutputs, lock_time : {0, 1}, expiry : {0}]
    ELSE [version : {IF coin.overwintered THEN 4 ELSE 1},
          inputs_count : 0..MaxInputs, outputs_count : 0..MaxOutputs,
          lock_time : {0}, expiry : {0}]

---------------------------------------------------------------------------
(* The host's replies.  A TxInputType / TxOutputType message is a record   *)
(* of the fields the signer reads.  multisig is 0 for None and otherwise   *)
(* names a multisig group (its pubkey set and threshold).  prev_hash names *)
(* a previous transaction by its id.                                       *)

InputScriptTypes ==
    {"SPENDADDRESS", "SPENDMULTISIG", "EXTERNAL", "SPENDWITNESS",
     "SPENDP2SHWITNESS"}

OutputScriptTypes ==
    {"PAYTOADDRESS", "PAYTOSCRIPTHASH", "PAYTOMULTISIG", "PAYTOOPRETURN",
     "PAYTOWITNESS", "PAYTOP2SHWITNESS"}

BaseInput ==
    [address_n |-> <<1, 0, 0>>, script_type |-> "SPENDADDRESS", amount |-> 1,
     multisig |-> 0, sequence |-> 0, prev_hash |-> 1, prev_index |-> 0]

BaseOutput ==
    [address_n |-> <<>>, address |-> "p2pkh-a", amount |-> 1,
     script_type |-> "PAYTOADDRESS", multisig |-> 0,
     decred_script_version |-> NoneInt]

\* A change output: the address is derived from address_n, none is given.
BaseChange ==
    [BaseOutput EXCEPT !.address_n = <<1, 1, 0>>, !.address = ""]

\* The inputs a host may send: varied in script type and amount, in the
\* multisig group, in the path, in the sequence and in the previous output.
RichInputs ==
    {[BaseInput EXCEPT !.script_type = t, !.amount = a] :
        t \in {"SPENDADDRESS", "SPENDWITNESS"}, a \in 0..MaxAmount}
    \cup {[BaseInput EXCEPT !.script_type = t, !.multisig = 1] :
        t \in {"SPENDMULTISIG", "SPENDWITNESS"}}
    \cup {[BaseInput EXCEPT !.script_type = "SPENDMULTISIG", !.multisig = 2],
          [BaseInput EXCEPT !.script_type = "SPENDP2SHWITNESS"],
          [BaseInput EXCEPT !.script_type = "EXTERNAL"],
          [BaseInput EXCEPT !.amount = NoneInt],
          [BaseInput EXCEPT !.address_n = <<2, 0, 0>>],
          [BaseInput EXCEPT !.address_n = <<0, 0>>],
          [BaseInput EXCEPT !.sequence = 1],
          [BaseInput EXCEPT !.prev_index = 1]}

\* inputs that differ in the previous output they spend
PrevTxInputs ==
    {[BaseInput EXCEPT !.prev_hash = h, !.prev_index = x] :
        h \in {1, 2}, x \in 0..2}

FewInputs ==
    {BaseInput,
     [BaseInput EXCEPT !.script_type = "SPENDMULTISIG", !.multisig = 1],
     [BaseInput EXCEPT !.address_n = <<2, 0, 0>>]}

TamperInputs ==
    {[BaseInput EXCEPT !.script_type = t, !.amount = a] :
        t \in {"SPENDADDRESS", "SPENDWITNESS"}, a \in 1..MaxAmount}
    \cup {[BaseInput EXCEPT !.sequence = 1],
          [BaseInput EXCEPT !.address_n = <<2, 0, 0>>],
          [BaseInput EXCEPT !.script_type = "SPENDMULTISIG", !.multisig = 1],
          [BaseInput EXCEPT !.script_type = "SPENDMULTISIG", !.multisig = 2],
          [BaseInput EXCEPT !.script_type = "SPENDWITNESS", !.multisig = 1],
          [BaseInput EXCEPT !.script_type = "SPENDWITNESS",
                            !.address_n = <<2, 0, 0>>]}

RichOutputs ==
    {[BaseOutput EXCEPT !.amount = a] : a \in 1..MaxAmount}
    \cup {[BaseChange EXCEPT !.amount = a] : a \in 0..MaxAmount}
    \cup {[BaseChange EXCEPT !.address_n = p] :
        p \in {<<1, 2, 0>>, <<1, 1, BIP32_MAX_LAST_ELEMENT + 1>>,
               <<2, 1, 0>>, <<1, 0>>, <<1>>}}
    \cup {[BaseChange EXCEPT !.script_type = "PAYTOMULTISIG", !.multisig = m] :
        m \in {1, 2}}
    \cup {[BaseOutput EXCEPT !.address = "invalid"],
          [BaseOutput EXCEPT !.address = "p2sh-b"],
          [BaseOutput EXCEPT !.address = "cashaddr:other"],
          [BaseOutput EXCEPT !.script_type = "PAYTOOPRETURN", !.amount = 0,
                             !.address = ""],
          [BaseChange EXCEPT !.script_type = "PAYTOSCRIPTHASH"],
          [BaseOutput EXCEPT !.decred_script_version = 1]}

FewOutputs == {BaseOutput, BaseChange}

TamperOutputs ==
    {BaseOutput, BaseChange,
     [BaseOutput EXCEPT !.address = "p2sh-b"],
     [BaseOutput EXCEPT !.amount = 2]}

\* The host's range: it varies the inputs, or the outputs, or the previous
\* transactions it streams, or it replays phase 1 differently in phase 2.
Profiles == {"inputs", "outputs", "tamper", "prevtx"}

InputsOf(profile) ==
    CASE profile = "inputs" -> RichInputs
      [] profile = "outputs" -> FewInputs
      [] profile = "prevtx" -> PrevTxInputs
      [] OTHER -> TamperInputs

OutputsOf(profile) ==
    CASE profile = "inputs" -> FewOutputs
      [] profile = "outputs" -> RichOutputs
      [] profile = "prevtx" -> {BaseOutput}
      [] OTHER -> TamperOutputs


---------------------------------------------------------------------------
(* Messages and byte strings.                                              *)

NoneRec == [none |-> TRUE]      \* None where a message / signature stands
NoneBytes == <<NoneRec>>        \* None where a bytearray of items stands

\* TxRequest(); tx_req.details = TxRequestDetailsType()
NewTxRequest ==
    [request_type |-> "", request_index |-> NoneInt, tx_hash |-> 0,
     serialized |-> NoneRec]

\* TxRequestSerializedType(signature_index, signature, serialized_tx)
TxRequestSerializedType(signature_index, signature, serialized_tx) ==
    [signature_index |-> signature_index, signature |-> signature,
     serialized_tx |-> serialized_tx]

\* One item written by a writer: what was written, and its fields.
Item(tag, val) == [t |-> tag, v |-> val]

\* writers.write_tx_input_check: the fields of an input h_first covers
write_tx_input_check(txi) ==
    Item("input_check",
         [prev_hash |-> txi.prev_hash, prev_index |-> txi.prev_index,
          script_type |-> txi.script_type, address_n |-> txi.address_n,
          sequence |-> txi.sequence,
          amount |-> IF Falsy(txi.amount) THEN 0 ELSE txi.amount])

\* writers.write_tx_input: outpoint, script_sig, sequence
write_tx_input(txi, script_sig) ==
    Item("input",
         [prev_hash |-> txi.prev_hash, prev_index |-> txi.prev_index,
          script_sig |-> script_sig, sequence |-> txi.sequence])

\* writers.write_tx_input_decred: outpoint, tree, sequence
write_tx_input_decred(txi) ==
    Item("input_decred",
         [prev_hash |-> txi.prev_hash, prev_index |-> txi.prev_index,
          sequence |-> txi.sequence])

\* writers.write_tx_input_decred_witness: amount, block, script_sig
write_tx_input_decred_witness(txi, script_sig) ==
    Item("input_decred_witness",
         [amount |-> txi.amount, script_sig |-> script_sig])

\* writers.write_tx_output: amount, (Decred) script version, script_pubkey
write_tx_output(txo_bin) == Item("output", txo_bin)

write_uint32(tag, n) == Item(tag, [n |-> n])
write_varint(tag, n) == Item(tag, [n |-> n])

---------------------------------------------------------------------------
(* signing.py:693-732: the checks on a phase-2 input.                      *)

input_is_segwit(i) ==
    \/ i.script_type = "SPENDWITNESS"
    \/ i.script_type = "SPENDP2SHWITNESS"

\* A faulty variant of input_extract_wallet_path: an input that matches no
\* earlier one starts a new wallet path.
input_extract_wallet_path_latest(txi, wallet_path) ==
    LET address_n == DropWalletDepth(txi.address_n) IN
    IF address_n = <<>> THEN None ELSE address_n

input_extract_wallet_path(txi, wallet_path) ==
    IF wallet_path = None THEN None
    ELSE LET address_n == DropWalletDepth(txi.address_n) IN
         IF address_n = <<>> THEN None
         ELSE IF wallet_path = <<>> THEN address_n
         ELSE IF wallet_path = address_n THEN address_n
         ELSE None

\* A faulty variant of input_check_wallet_path: it never raises.
input_check_wallet_path_never(txi, wallet_path) == FALSE

\* TRUE iff input_check_wallet_path raises
input_check_wallet_path(txi, wallet_path) ==
    IF wallet_path = None THEN FALSE
    ELSE wallet_path # DropWalletDepth(txi.address_n)

\* multisig.MultisigFingerprint (multisig.py)
NewMultisigFingerprint == [fingerprint |-> 0, mismatch |-> FALSE]

multisig_fingerprint(ms) == ms

multisig_fp_add(fp, ms) ==
    IF fp.fingerprint = 0
    THEN [fp EXCEPT !.fingerprint = multisig_fingerprint(ms)]
    ELSE IF fp.fingerprint # multisig_fingerprint(ms)
    THEN [fp EXCEPT !.mismatch = TRUE]
    ELSE fp

multisig_fp_matches(fp, ms) ==
    fp.mismatch = FALSE /\ fp.fingerprint = multisig_fingerprint(ms)

\* A faulty variant of input_check_multisig_fingerprint: it never raises.
input_check_multisig_fingerprint_never(txi, multisig_fp) == FALSE

\* TRUE iff input_check_multisig_fingerprint raises
input_check_multisig_fingerprint(txi, multisig_fp) ==
    /\ multisig_fp.mismatch = FALSE
    /\ (txi.multisig = 0 \/ ~multisig_fp_matches(multisig_fp, txi.multisig))

---------------------------------------------------------------------------
(* signing.py:580-649: outputs.                                            *)

\* helpers.CHANGE_OUTPUT_TO_INPUT_SCRIPT_TYPES
CHANGE_OUTPUT_SCRIPT_TYPES ==
    {"PAYTOADDRESS", "PAYTOMULTISIG", "PAYTOWITNESS", "PAYTOP2SHWITNESS"}

\* The form of an address: what base58 / bech32 decoding finds in it.  A
\* change address has the form its script type derives.
AddressForm(o) ==
    IF o.address_n # <<>>
    THEN CASE o.script_type = "PAYTOADDRESS" -> "p2pkh"
           [] o.script_type = "PAYTOWITNESS" -> "bech32"
           [] OTHER -> "p2sh"
    ELSE CASE o.address \in {"p2pkh-a"} -> "p2pkh"
           [] o.address \in {"p2sh-b"} -> "p2sh"
           [] OTHER -> "invalid"

\* output_derive_script: [ok, script_pubkey] or [ok = FALSE, kind, msg].
\* "cashaddr:other" is an address with the coin's cashaddr prefix whose
\* version is neither P2KH nor P2SH; signing.py:607 raises SigningError with
\* one argument, which stands where the kind is expected.
output_derive_script(coin, o) ==
    IF o.script_type = "PAYTOOPRETURN"
    THEN [ok |-> TRUE, script_pubkey |-> [form |-> "opreturn",
              address |-> "", address_n |-> <<>>]]
    ELSE IF o.address_n # <<>>
            /\ o.script_type \notin CHANGE_OUTPUT_SCRIPT_TYPES
    THEN [ok |-> FALSE, kind |-> "DataError", msg |-> "Invalid script type"]
    ELSE IF coin.cashaddr /\ o.address_n = <<>> /\ o.address = "cashaddr:other"
    THEN [ok |-> FALSE, kind |-> "Unknown cashaddr address type", msg |-> ""]
    ELSE IF AddressForm(o) = "invalid"
    THEN [ok |-> FALSE, kind |-> "DataError", msg |-> "Invalid address"]
    ELSE [ok |-> TRUE, script_pubkey |-> [form |-> AddressForm(o),
              address |-> o.address, address_n |-> o.address_n]]

\* TRUE iff evaluating output_is_change raises IndexError: address_n[-2]
\* is reached with fewer than two elements.
output_is_change_raises(slf, o) ==
    /\ o.script_type \in CHANGE_OUTPUT_SCRIPT_TYPES
    /\ ~(o.multisig # 0 /\ ~multisig_fp_matches(slf.multisig_fp, o.multisig))
    /\ slf.wallet_path # None
    /\ slf.wallet_path = DropWalletDepth(o.address_n)
    /\ ~HasIndexFromEnd(o.address_n, 2)

output_is_change(slf, o) ==
    IF o.script_type \notin CHANGE_OUTPUT_SCRIPT_TYPES THEN FALSE
    ELSE IF o.multisig # 0 /\ ~multisig_fp_matches(slf.multisig_fp, o.multisig)
    THEN FALSE
    ELSE /\ slf.wallet_path # None
         /\ slf.wallet_path = DropWalletDepth(o.address_n)
         /\ FromEnd(o.address_n, 2) <= BIP32_CHANGE_CHAIN
         /\ FromEnd(o.address_n, 1) <= BIP32_MAX_LAST_ELEMENT


---------------------------------------------------------------------------
(* The prefix hashers: segwit_bip143.Bip143, decred.DecredPrefixHasher,    *)
(* and zcash.Zip143 / zcash.Zip243.  Each is its variant and its streams.  *)

\* The methods each class defines.
HashOps(variant) ==
    CASE variant = "Bip143" ->
           {"add_input", "add_output_count", "add_output",
            "add_locktime_expiry", "get_prevouts_hash", "get_sequence_hash",
            "get_outputs_hash", "get_prefix_hash", "preimage_hash"}
      [] variant = "DecredPrefixHasher" ->
           {"add_prevouts", "add_sequence", "add_output_count", "add_output",
            "add_locktime_expiry", "prefix_hash"}
      [] OTHER -> {}

\* zcash.Zip143 and zcash.Zip243 implement the operations of a hash context
ZipHashOps ==
    {"add_prevouts", "add_sequence", "add_output", "add_output_count",
     "add_locktime_expiry", "preimage_hash"}

HasOp(variant, op) ==
    IF variant \in {"Zip143", "Zip243"} THEN op \in ZipHashOps
    ELSE op \in HashOps(variant)

NewHasher(variant, h_prefix) ==
    [variant |-> variant, h_prevouts |-> <<>>, h_sequence |-> <<>>,
     h_outputs |-> <<>>, h_prefix |-> h_prefix]

DECRED_SERIALIZE_NO_WITNESS == 65536
DECRED_SERIALIZE_WITNESS_SIGNING == 196608

\* DecredPrefixHasher.__init__; version | flag is version + flag below 2^16
DecredPrefixHasher(tx) ==
    NewHasher("DecredPrefixHasher",
              <<write_uint32("version", tx.version + DECRED_SERIALIZE_NO_WITNESS),
                write_varint("inputs_count", tx.inputs_count)>>)

\* init_hash143: the variant selected, "" where it raises DataError
init_hash143_variant(cls, coin, tx) ==
    IF cls = "Decred" THEN "DecredPrefixHasher"
    ELSE IF coin.overwintered
    THEN CASE tx.version = 3 -> "Zip143"
           [] tx.version = 4 -> "Zip243"
           [] OTHER -> ""
    ELSE "Bip143"

hash143_add_prevouts(h, txi) ==
    IF h.variant = "DecredPrefixHasher"
    THEN [h EXCEPT !.h_prefix = Append(@, write_tx_input_decred(txi))]
    ELSE [h EXCEPT !.h_prevouts = Append(@,
              Item("prevout", [prev_hash |-> txi.prev_hash,
                               prev_index |-> txi.prev_index]))]

hash143_add_sequence(h, txi) ==
    IF h.variant = "DecredPrefixHasher" THEN h
    ELSE [h EXCEPT !.h_sequence = Append(@, write_uint32("sequence", txi.sequence))]

hash143_add_output_count(h, tx) ==
    IF h.variant = "DecredPrefixHasher"
    THEN [h EXCEPT !.h_prefix = Append(@, write_varint("outputs_count", tx.outputs_count))]
    ELSE h

hash143_add_output(h, txo_bin) ==
    IF h.variant = "DecredPrefixHasher"
    THEN [h EXCEPT !.h_prefix = Append(@, write_tx_output(txo_bin))]
    ELSE [h EXCEPT !.h_outputs = Append(@, write_tx_output(txo_bin))]

hash143_add_locktime_expiry(h, tx) ==
    IF h.variant = "DecredPrefixHasher"
    THEN [h EXCEPT !.h_prefix = @ \o <<write_uint32("lock_time", tx.lock_time),
                                       write_uint32("expiry", tx.expiry)>>]
    ELSE h

\* preimage_hash: the digest an input is signed with.  The stream digests
\* it folds in are those of the hasher, fixed once phase 1 is over.
preimage_hash(h, tx, txi) ==
    [alg |-> h.variant, lock_time |-> tx.lock_time, txi |-> txi]

\* ecdsa_sign with the key derived from address_n
ecdsa_sign(address_n, digest) == [key |-> address_n, digest |-> digest]

\* input_derive_script for the script types phase 2 lets through
input_derive_script(txi, signature) ==
    [form |-> CASE txi.script_type = "SPENDADDRESS" -> "p2pkh_or_p2sh"
                [] txi.script_type = "SPENDP2SHWITNESS" ->
                     IF txi.multisig # 0 THEN "p2wsh_in_p2sh"
                     ELSE "p2wpkh_in_p2sh"
                [] txi.script_type = "SPENDWITNESS" -> "native_p2wpkh_or_p2wsh"
                [] OTHER -> "multisig",
     signature |-> IF input_is_segwit(txi) THEN NoneRec ELSE signature]

\* tx_weight.TxWeightCalculator: 4 * base bytes + witness bytes
TxWeightCalculator(inputs_count, outputs_count) == 40

weight_add_input(weight, txi) ==
    weight + (CASE txi.script_type = "SPENDWITNESS" -> 272
                [] txi.script_type = "SPENDP2SHWITNESS" -> 364
                [] txi.script_type = "SPENDMULTISIG" -> 764
                [] OTHER -> 592)

weight_add_output(weight, script_pubkey) ==
    weight + (IF script_pubkey.form = "p2pkh" THEN 136 ELSE 128)

\* addresses.validate_full_path: the paths of the wallet the coin expects
validate_full_path(address_n) ==
    Len(address_n) > BIP32_WALLET_DEPTH /\ address_n[1] = 1


---------------------------------------------------------------------------
(* The running session as one value: the signer's fields, the coroutine,   *)
(* and what it has sent and asked.  A handler is an operator from the      *)
(* session at a resumption to the session at the next suspension.          *)

ProcessErrorChanged == "Transaction has changed during signing"

\* A faulty variant of Raise: the error is noted and the coroutine goes on
\* waiting where it was.
RaiseAndGoOn(B, kind, msg) ==
    [B EXCEPT !.err = [kind |-> kind, msg |-> msg]]

\* raise SigningError(kind, msg), or the raise of a Python error: nothing in
\* signer catches it, the coroutine ends
Raise(B, kind, msg) ==
    [B EXCEPT !.err = [kind |-> kind, msg |-> msg], !.co.pc = "error"]

\* helpers.request_tx_input / request_tx_output / request_tx_meta: fill in
\* the request, send it with whatever tx_req.serialized holds, and clear
\* tx_req.serialized; the coroutine waits at `label` for the reply.
Request(B, type, index, tx_hash, label) ==
    LET req == [B.self.tx_req EXCEPT !.request_type = type,
                    !.request_index = index, !.tx_hash = tx_hash]
    IN  [B EXCEPT !.wire = Append(@, [req |-> req, at |-> label]),
                  !.self.tx_req = [req EXCEPT !.serialized = NoneRec],
                  !.co.pc = label]

\* a helpers.confirm_* prompt: the coroutine waits at `label` for the user
Prompt(B, label) == [B EXCEPT !.co.pc = label]

\* the user answered `prompt`, which showed a and b, after Len(wire) requests
Answered(B, prompt, a, b, answer) ==
    [B EXCEPT !.ui = Append(@, [prompt |-> prompt, a |-> a, b |-> b,
                                answer |-> answer, w |-> Len(B.wire)])]

\* helpers.request_tx_finish: the last request; the session is over
request_tx_finish(B) ==
    LET req == [B.self.tx_req EXCEPT !.request_type = "TXFINISHED",
                    !.request_index = NoneInt, !.tx_hash = 0]
    IN  [B EXCEPT !.wire = Append(@, [req |-> req, at |-> "finish"]),
                  !.self.tx_req = [req EXCEPT !.serialized = NoneRec],
                  !.co.pc = "done"]

AnySegwit(segwit) == \E k \in 1..Len(segwit) : segwit[k]

\* write_tx_header
write_tx_header(slf) ==
    (IF slf.coin.overwintered
     THEN <<write_uint32("version_overwintered", slf.tx.version),
            write_uint32("version_group_id", 0)>>
     ELSE <<write_uint32("version", slf.tx.version)>>)
    \o (IF AnySegwit(slf.segwit)
        THEN <<write_varint("segwit_marker", 0), write_varint("segwit_flag", 1)>>
        ELSE <<>>)
    \o <<write_varint("inputs_count", slf.tx.inputs_count)>>

---------------------------------------------------------------------------
(* Bitcoin.phase2 (signing.py:221-285), from its end to its start.         *)

\* signing.py:263-285: lock_time, the overwintered trailer, TXFINISHED
Phase2Trailer(B) ==
    IF B.co.tx_ser.serialized_tx = NoneBytes
    THEN Raise(B, "AttributeError", "NoneType has no append")
    ELSE IF B.self.coin.overwintered /\ B.self.tx.version \notin {3, 4}
    THEN Raise(B, "DataError", "Unsupported version for overwintered transaction")
    ELSE
    LET trailer ==
          <<write_uint32("lock_time", B.self.tx.lock_time)>>
          \o (IF ~B.self.coin.overwintered THEN <<>>
              ELSE IF B.self.tx.version = 3
              THEN <<write_uint32("expiry", B.self.tx.expiry),
                     write_varint("nJoinSplit", 0)>>
              ELSE <<write_uint32("expiry", B.self.tx.expiry),
                     write_uint32("valueBalance", 0),
                     write_varint("nShieldedSpend", 0),
                     write_varint("nShieldedOutput", 0),
                     write_varint("nJoinSplit", 0)>>)
        tx_ser == [B.co.tx_ser EXCEPT !.serialized_tx = @ \o trailer]
    IN  request_tx_finish([B EXCEPT !.co.tx_ser = tx_ser,
                                    !.self.tx_req.serialized = tx_ser])

\* A faulty variant of Phase2Witnesses: no input is signed in the witness
\* pass.
Phase2WitnessesUnsigned(B, i) == Phase2Trailer(B)

\* signing.py:244-261: the witness loop from index i on, up to the next
\* request.  A non-segwit index is handled without a request.
RECURSIVE Phase2Witnesses(_, _)
Phase2Witnesses(B, i) ==
    IF i >= B.self.tx.inputs_count THEN Phase2Trailer(B)
    ELSE IF B.self.segwit[i + 1]
    THEN Request([B EXCEPT !.co.i = i], "TXINPUT", i, 0, "p2_witness")
    ELSE IF B.co.any_segwit
    THEN IF B.co.tx_ser.serialized_tx = NoneBytes
         THEN Raise(B, "TypeError", "NoneType += bytearray")
         ELSE LET tx_ser == [B.co.tx_ser EXCEPT
                                !.serialized_tx = Append(@, write_varint("empty_witness", 0)),
                                !.signature_index = NoneInt,
                                !.signature = NoneRec]
              IN  Phase2Witnesses([B EXCEPT !.co.tx_ser = tx_ser,
                                            !.self.tx_req.serialized = tx_ser],
                                  i + 1)
    ELSE Phase2Witnesses([B EXCEPT !.self.tx_req.serialized = B.co.tx_ser],
                         i + 1)

\* A faulty variant of Phase2Outputs: the outputs are not requested again.
Phase2OutputsSkipped(B, i) ==
    Phase2Witnesses([B EXCEPT !.co.any_segwit = AnySegwit(B.self.segwit)], 0)

\* signing.py:236-245: the output loop from index i on
Phase2Outputs(B, i) ==
    IF i < B.self.tx.outputs_count
    THEN Request([B EXCEPT !.co.i = i], "TXOUTPUT", i, 0, "p2_output")
    ELSE Phase2Witnesses([B EXCEPT !.co.any_segwit = AnySegwit(B.self.segwit)], 0)

\* A faulty variant of Phase2Inputs: every input goes to the signing pass
\* of its coin, whatever phase 1 recorded for it.
Phase2InputsUnclassified(B, i) ==
    IF i < B.self.tx.inputs_count
    THEN IF B.self.coin.force_bip143 \/ B.self.coin.overwintered
         THEN Request([B EXCEPT !.co.i = i], "TXINPUT", i, 0, "p2_bip143_input")
         ELSE Request([B EXCEPT !.co.i = i], "TXINPUT", 0, 0, "p2_legacy_input")
    ELSE Phase2Outputs([B EXCEPT !.co.tx_ser =
                            TxRequestSerializedType(NoneInt, NoneRec, NoneBytes)], 0)

\* signing.py:224-237: the input loop from index i on
Phase2Inputs(B, i) ==
    IF i < B.self.tx.inputs_count
    THEN IF B.self.segwit[i + 1]
         THEN Request([B EXCEPT !.co.i = i], "TXINPUT", i, 0, "p2_segwit_input")
         ELSE IF B.self.coin.force_bip143 \/ B.self.coin.overwintered
         THEN Request([B EXCEPT !.co.i = i], "TXINPUT", i, 0, "p2_bip143_input")
         ELSE Request([B EXCEPT !.co.i = i], "TXINPUT", 0, 0, "p2_legacy_input")
    ELSE Phase2Outputs([B EXCEPT !.co.tx_ser =
                            TxRequestSerializedType(NoneInt, NoneRec, NoneBytes)], 0)

\* A faulty variant of amount_exceeds_bip143_in: the amount is not checked.
amount_exceeds_bip143_in_never(amount, bip143_in) == FALSE

\* signing.py:318 and 356: txi.amount > self.bip143_in
amount_exceeds_bip143_in(amount, bip143_in) == amount > bip143_in

\* phase2_serialize_segwit_input, resumed with the host's input
phase2_serialize_segwit_input(B, txi_sign) ==
    IF ~input_is_segwit(txi_sign)
    THEN Raise(B, "ProcessError", ProcessErrorChanged)
    ELSE IF input_check_wallet_path(txi_sign, B.self.wallet_path)
    THEN Raise(B, "ProcessError", ProcessErrorChanged)
    ELSE
    LET w_txi == (IF B.co.i = 0 THEN write_tx_header(B.self) ELSE <<>>)
                 \o <<write_tx_input(txi_sign, input_derive_script(txi_sign, NoneRec))>>
    IN  Phase2Inputs([B EXCEPT !.self.tx_req.serialized =
                          TxRequestSerializedType(NoneInt, NoneRec, w_txi)],
                     B.co.i + 1)

\* phase2_sign_bip143_input, resumed with the host's input
phase2_sign_bip143_input(B, txi_sign) ==
    IF input_check_wallet_path(txi_sign, B.self.wallet_path)
    THEN Raise(B, "ProcessError", ProcessErrorChanged)
    ELSE IF input_check_multisig_fingerprint(txi_sign, B.self.multisig_fp)
    THEN Raise(B, "ProcessError", ProcessErrorChanged)
    ELSE IF txi_sign.script_type \notin {"SPENDADDRESS", "SPENDMULTISIG"}
    THEN Raise(B, "ProcessError", ProcessErrorChanged)
    ELSE IF txi_sign.amount = NoneInt
    THEN Raise(B, "TypeError", "NoneType > int")
    ELSE IF amount_exceeds_bip143_in(txi_sign.amount, B.self.bip143_in)
    THEN Raise(B, "ProcessError", ProcessErrorChanged)
    ELSE IF ~HasOp(B.self.hash143.variant, "preimage_hash")
    THEN Raise(B, "AttributeError", "preimage_hash")
    ELSE
    LET signature == ecdsa_sign(txi_sign.address_n,
                         preimage_hash(B.self.hash143, B.self.tx, txi_sign))
        w_txi_sign == (IF B.co.i = 0 THEN write_tx_header(B.self) ELSE <<>>)
                      \o <<write_tx_input(txi_sign,
                               input_derive_script(txi_sign, signature))>>
    IN  Phase2Inputs([B EXCEPT !.self.bip143_in = @ - txi_sign.amount,
                               !.self.tx_req.serialized =
                          TxRequestSerializedType(B.co.i, signature, w_txi_sign)],
                     B.co.i + 1)

\* phase2_serialize_output and the loop body around it (signing.py:238-242)
phase2_serialize_output(B, txo) ==
    LET script == output_derive_script(B.self.coin, txo) IN
    IF ~script.ok THEN Raise(B, script.kind, script.msg)
    ELSE
    LET txo_bin == [amount |-> txo.amount, script_pubkey |-> script.script_pubkey,
                    decred_script_version |-> NoneInt]
        w_txo_bin == (IF B.co.i = 0
                      THEN <<write_varint("outputs_count", B.self.tx.outputs_count)>>
                      ELSE <<>>)
                     \o <<write_tx_output(txo_bin)>>
        tx_ser == [B.co.tx_ser EXCEPT !.serialized_tx = w_txo_bin]
    IN  Phase2Outputs([B EXCEPT !.co.tx_ser = tx_ser,
                                !.self.tx_req.serialized = tx_ser],
                      B.co.i + 1)

\* phase2_sign_segwit_input and the loop body around it (signing.py:248-261)
phase2_sign_segwit_input(B, txi) ==
    IF input_check_wallet_path(txi, B.self.wallet_path)
    THEN Raise(B, "ProcessError", ProcessErrorChanged)
    ELSE IF input_check_multisig_fingerprint(txi, B.self.multisig_fp)
    THEN Raise(B, "ProcessError", ProcessErrorChanged)
    ELSE IF ~input_is_segwit(txi)
    THEN Raise(B, "ProcessError", ProcessErrorChanged)
    ELSE IF txi.amount = NoneInt
    THEN Raise(B, "TypeError", "NoneType > int")
    ELSE IF amount_exceeds_bip143_in(txi.amount, B.self.bip143_in)
    THEN Raise(B, "ProcessError", ProcessErrorChanged)
    ELSE IF ~HasOp(B.self.hash143.variant, "preimage_hash")
    THEN Raise(B, "AttributeError", "preimage_hash")
    ELSE
    LET signature == ecdsa_sign(txi.address_n,
                         preimage_hash(B.self.hash143, B.self.tx, txi))
        witness == <<Item("witness",
                          [form |-> IF txi.multisig # 0 THEN "p2wsh" ELSE "p2wpkh",
                           signature |-> signature])>>
        tx_ser == TxRequestSerializedType(B.co.i, signature, witness)
    IN  Phase2Witnesses([B EXCEPT !.self.bip143_in = @ - txi.amount,
                                  !.co.tx_ser = tx_ser,
                                  !.self.tx_req.serialized = tx_ser],
                        B.co.i + 1)


---------------------------------------------------------------------------
(* Decred.phase2 (decred.py:106-180).                                      *)

\* decred.py:111-114 and 180: the loop from index i on
DecredPhase2Inputs(B, i) ==
    IF i < B.self.tx.inputs_count
    THEN Request([B EXCEPT !.co.i = i], "TXINPUT", i, 0, "d2_input")
    ELSE request_tx_finish(B)

\* decred.py:116-178: the loop body, resumed with the host's input
decred_phase2_input(B, txi_sign) ==
    IF input_check_wallet_path(txi_sign, B.self.wallet_path)
    THEN Raise(B, "ProcessError", ProcessErrorChanged)
    ELSE IF input_check_multisig_fingerprint(txi_sign, B.self.multisig_fp)
    THEN Raise(B, "ProcessError", ProcessErrorChanged)
    ELSE IF txi_sign.script_type \notin {"SPENDMULTISIG", "SPENDADDRESS"}
    THEN Raise(B, "Unsupported input script type", "")
    ELSE IF B.co.i = 0 /\ B.self.last_output_bytes = NoneBytes
    THEN Raise(B, "TypeError", "len of NoneType")
    ELSE
    LET signature == ecdsa_sign(txi_sign.address_n,
                         [alg |-> "decred", lock_time |-> B.self.tx.lock_time,
                          txi |-> txi_sign])
        w_txi_sign ==
            (IF B.co.i = 0
             THEN B.self.last_output_bytes
                  \o <<write_uint32("lock_time", B.self.tx.lock_time),
                       write_uint32("expiry", B.self.tx.expiry),
                       write_varint("inputs_count", B.self.tx.inputs_count)>>
             ELSE <<>>)
            \o <<write_tx_input_decred_witness(txi_sign,
                     input_derive_script(txi_sign, signature))>>
    IN  DecredPhase2Inputs([B EXCEPT !.self.tx_req.serialized =
                                TxRequestSerializedType(B.co.i, signature, w_txi_sign)],
                           B.co.i + 1)

\* signer (signing.py:71): phase 2 of the session's class
Phase2(B) ==
    LET B1 == [B EXCEPT !.self.tx_req.serialized = NoneRec] IN
    IF B.self.cls = "Decred" THEN DecredPhase2Inputs(B1, 0)
    ELSE Phase2Inputs(B1, 0)

---------------------------------------------------------------------------
(* Bitcoin.phase1 (signing.py:114-157) and Decred.phase1 (decred.py:73-75), *)
(* from the end to the start.                                              *)

\* confirm_total accepted: phase 1 returns (Decred adds locktime and expiry)
Phase1Return(B) ==
    IF B.self.cls = "Decred"
    THEN Phase2([B EXCEPT !.self.hash143 =
                     hash143_add_locktime_expiry(@, B.self.tx)])
    ELSE Phase2(B)

\* A faulty variant of Phase1Total: phase 1 returns without the prompt.
Phase1TotalSkipped(B) == Phase1Return(B)

\* signing.py:154
Phase1Total(B) == Prompt(B, "p1_confirm_total")

\* A faulty variant of Phase1Locktime: the locktime is put to the user even
\* where it is zero.
Phase1LocktimeAlways(B) == Prompt(B, "p1_confirm_locktime")

\* signing.py:150
Phase1Locktime(B) ==
    IF B.self.tx.lock_time > 0 THEN Prompt(B, "p1_confirm_locktime")
    ELSE Phase1Total(B)

\* fee > (coin.maxfee_kb / 1000) * (weight.get_total() / 4)
FeeOverThreshold(fee, maxfee_kb, weight) == fee * 4000 > maxfee_kb * weight

\* A faulty variant of Phase1Fee: a negative fee is let through.
Phase1FeeUnchecked(B) ==
    LET fee == B.self.total_in - B.self.total_out
        B1 == [B EXCEPT !.co.fee = fee]
    IN  IF FeeOverThreshold(fee, B.self.coin.maxfee_kb, B.co.weight)
        THEN Prompt(B1, "p1_confirm_fee")
        ELSE Phase1Locktime(B1)

\* signing.py:137-147
Phase1Fee(B) ==
    LET fee == B.self.total_in - B.self.total_out
        B1 == [B EXCEPT !.co.fee = fee]
    IN  IF ~B.self.coin.negative_fee /\ fee < 0
        THEN Raise(B1, "NotEnoughFunds", "Not enough funds")
        ELSE IF FeeOverThreshold(fee, B.self.coin.maxfee_kb, B.co.weight)
        THEN Prompt(B1, "p1_confirm_fee")
        ELSE Phase1Locktime(B1)

\* signing.py:129-131: the output loop from index i on
Phase1Outputs(B, i) ==
    IF i < B.self.tx.outputs_count
    THEN Request([B EXCEPT !.co.i = i], "TXOUTPUT", i, 0, "p1_output")
    ELSE Phase1Fee(B)

\* signing.py:217-219: the end of phase1_confirm_output
Phase1OutputTail(B) ==
    Phase1Outputs(
        [B EXCEPT !.self.h_first = Append(@, write_tx_output(B.co.txo_bin)),
                  !.self.hash143 = hash143_add_output(@, B.co.txo_bin),
                  !.self.total_out = @ + B.co.txo_bin.amount],
        B.co.i + 1)

\* A faulty variant of bitcoin_phase1_confirm_output: no output is put to
\* the user.
bitcoin_phase1_confirm_output_unasked(B, txo) == Phase1OutputTail(B)

\* Bitcoin.phase1_confirm_output up to its prompt (signing.py:211-215)
bitcoin_phase1_confirm_output(B, txo) ==
    IF B.self.change_out = 0 /\ output_is_change_raises(B.self, txo)
    THEN Raise(B, "IndexError", "list index out of range")
    ELSE IF B.self.change_out = 0 /\ output_is_change(B.self, txo)
    THEN Phase1OutputTail([B EXCEPT !.self.change_out = txo.amount])
    ELSE Prompt(B, "p1_confirm_output")

\* A faulty variant of decred_phase1_confirm_output: the script version of
\* the output is not looked at.
decred_phase1_confirm_output_unversioned(B, txo) ==
    LET txo_bin == [B.co.txo_bin EXCEPT
                       !.decred_script_version = txo.decred_script_version]
        w_txo_bin == (IF B.co.i = 0
                      THEN <<write_varint("outputs_count", B.self.tx.outputs_count)>>
                      ELSE <<>>)
                     \o <<write_tx_output(txo_bin)>>
    IN  bitcoin_phase1_confirm_output(
            [B EXCEPT !.co.txo_bin = txo_bin,
                      !.self.hash143 = IF B.co.i = 0
                                       THEN hash143_add_output_count(@, B.self.tx)
                                       ELSE @,
                      !.self.tx_req.serialized =
                          TxRequestSerializedType(NoneInt, NoneRec, w_txo_bin),
                      !.self.last_output_bytes = w_txo_bin],
            txo)

\* Decred.phase1_confirm_output before it calls super (decred.py:88-104)
decred_phase1_confirm_output(B, txo) ==
    IF txo.decred_script_version # NoneInt /\ txo.decred_script_version # 0
    THEN Raise(B, "ActionCancelled", "Cannot send to output with script version != 0")
    ELSE
    LET txo_bin == [B.co.txo_bin EXCEPT
                       !.decred_script_version = txo.decred_script_version]
        w_txo_bin == (IF B.co.i = 0
                      THEN <<write_varint("outputs_count", B.self.tx.outputs_count)>>
                      ELSE <<>>)
                     \o <<write_tx_output(txo_bin)>>
    IN  bitcoin_phase1_confirm_output(
            [B EXCEPT !.co.txo_bin = txo_bin,
                      !.self.hash143 = IF B.co.i = 0
                                       THEN hash143_add_output_count(@, B.self.tx)
                                       ELSE @,
                      !.self.tx_req.serialized =
                          TxRequestSerializedType(NoneInt, NoneRec, w_txo_bin),
                      !.self.last_output_bytes = w_txo_bin],
            txo)

\* signing.py:131-135: the loop body, resumed with the host's output
phase1_output(B, txo) ==
    LET script == output_derive_script(B.self.coin, txo) IN
    IF ~script.ok THEN Raise(B, script.kind, script.msg)
    ELSE
    LET B1 == [B EXCEPT !.co.txo = txo,
                        !.co.txo_bin = [amount |-> txo.amount,
                                        script_pubkey |-> script.script_pubkey,
                                        decred_script_version |-> NoneInt],
                        !.co.weight = weight_add_output(@, script.script_pubkey)]
    IN  IF B.self.cls = "Decred" THEN decred_phase1_confirm_output(B1, txo)
        ELSE bitcoin_phase1_confirm_output(B1, txo)

\* signing.py:121-126: the input loop from index i on
Phase1Inputs(B, i) ==
    IF i < B.self.tx.inputs_count
    THEN Request([B EXCEPT !.co.i = i], "TXINPUT", i, 0, "p1_input")
    ELSE Phase1Outputs(B, 0)

\* phase1_process_input has returned: Decred.phase1_process_input
\* serializes the input (decred.py:79-83); then the next input
Phase1InputDone(B) ==
    IF B.self.cls = "Decred"
    THEN LET w_txi == (IF B.co.i = 0 THEN write_tx_header(B.self) ELSE <<>>)
                      \o <<write_tx_input_decred(B.co.txi)>>
         IN  Phase1Inputs([B EXCEPT !.self.tx_req.serialized =
                               TxRequestSerializedType(NoneInt, NoneRec, w_txi)],
                          B.co.i + 1)
    ELSE Phase1Inputs(B, B.co.i + 1)


---------------------------------------------------------------------------
(* get_prevtx_output_value (decred.py:182-232; signing.py:489-550 without  *)
(* its extra-data loop: no coin of the model has extra data).              *)

\* The previous transactions that exist: a prev_hash names exactly one.
PrevTx(h) ==
    IF h = 1
    THEN [meta |-> [version |-> 1, inputs_cnt |-> 1, outputs_cnt |-> 2,
                    lock_time |-> 0, expiry |-> 0],
          inputs |-> <<[id |-> 0]>>,
          outputs |-> <<[amount |-> 1, decred_script_version |-> 0],
                        [amount |-> 2, decred_script_version |-> 0]>>]
    ELSE [meta |-> [version |-> 1, inputs_cnt |-> 0, outputs_cnt |-> 1,
                    lock_time |-> 0, expiry |-> 0],
          inputs |-> <<>>,
          outputs |-> <<[amount |-> 1, decred_script_version |-> 1]>>]

PrevHashes == {1, 2}

\* what the host may stream as a previous transaction
PrevMetas ==
    {PrevTx(h).meta : h \in PrevHashes}
    \cup {[PrevTx(1).meta EXCEPT !.outputs_cnt = 1]}
PrevInputs == {[id |-> 0], [id |-> 1]}
PrevOutputs == [amount : 1..MaxAmount, decred_script_version : {NoneInt, 0, 1}]

PrevHeader(cls, tx) ==
    <<write_uint32("version",
          IF cls = "Decred" THEN tx.version + DECRED_SERIALIZE_NO_WITNESS
          ELSE tx.version),
      write_varint("inputs_cnt", tx.inputs_cnt)>>

PrevTrailer(cls, tx) ==
    IF cls = "Decred"
    THEN <<write_uint32("lock_time", tx.lock_time), write_uint32("expiry", tx.expiry)>>
    ELSE <<write_uint32("lock_time", tx.lock_time)>>

RECURSIVE Items(_, _)
Items(tag, seq) ==
    IF seq = <<>> THEN <<>> ELSE <<Item(tag, Head(seq))>> \o Items(tag, Tail(seq))

\* the stream whose digest is the id of previous transaction h
PrevStream(cls, h) ==
    PrevHeader(cls, PrevTx(h).meta)
    \o Items("prev_input", PrevTx(h).inputs)
    \o <<write_varint("outputs_cnt", PrevTx(h).meta.outputs_cnt)>>
    \o Items("prev_output", PrevTx(h).outputs)
    \o PrevTrailer(cls, PrevTx(h).meta)

\* writers.get_tx_hash(txh, ...): the id of the transaction streamed, 0 for
\* the digest of a stream that is no known transaction
get_tx_hash(cls, txh) ==
    IF \E h \in PrevHashes : txh = PrevStream(cls, h)
    THEN CHOOSE h \in PrevHashes : txh = PrevStream(cls, h)
    ELSE 0

\* the sub-protocol returned total_out: signing.py:202 adds it to total_in
PrevReturn(B) ==
    Phase1InputDone([B EXCEPT !.self.total_in = @ + B.co.prev.total_out])

\* A faulty variant of PrevFinish: the digest is not compared.
PrevFinishUnverified(B) ==
    PrevReturn([B EXCEPT !.co.prev.txh =
                    @ \o PrevTrailer(B.self.cls, B.co.prev.tx)])

\* decred.py:221-232
PrevFinish(B) ==
    LET B1 == [B EXCEPT !.co.prev.txh =
                   @ \o PrevTrailer(B.self.cls, B.co.prev.tx)]
    IN  IF get_tx_hash(B.self.cls, B1.co.prev.txh) # B.co.txi.prev_hash
        THEN Raise(B1, "ProcessError", "Encountered invalid prev_hash")
        ELSE PrevReturn(B1)

\* decred.py:204-208: the output loop from index o on
PrevOutputsFrom(B, o) ==
    IF o < B.co.prev.tx.outputs_cnt
    THEN Request([B EXCEPT !.co.prev.k = o], "TXOUTPUT", o, B.co.txi.prev_hash,
                 "prev_output")
    ELSE PrevFinish(B)

\* decred.py:197-202: the input loop from index i on
PrevInputsFrom(B, i) ==
    IF i < B.co.prev.tx.inputs_cnt
    THEN Request([B EXCEPT !.co.prev.k = i], "TXINPUT", i, B.co.txi.prev_hash,
                 "prev_input")
    ELSE PrevOutputsFrom(
             [B EXCEPT !.co.prev.txh = Append(@,
                  write_varint("outputs_cnt", B.co.prev.tx.outputs_cnt))],
             0)

\* A faulty variant of prev_meta: the count of outputs is not compared with
\* prev_index.
prev_meta_unchecked(B, tx) ==
    PrevInputsFrom([B EXCEPT !.co.prev.tx = tx,
                             !.co.prev.txh = PrevHeader(B.self.cls, tx)],
                   0)

\* decred.py:188-195, resumed with the host's meta
prev_meta(B, tx) ==
    IF tx.outputs_cnt <= B.co.txi.prev_index
    THEN Raise(B, "ProcessError", "Not enough outputs in previous transaction.")
    ELSE PrevInputsFrom([B EXCEPT !.co.prev.tx = tx,
                                  !.co.prev.txh = PrevHeader(B.self.cls, tx)],
                        0)

\* decred.py:199-200, resumed with the host's previous input
prev_input(B, txi) ==
    PrevInputsFrom([B EXCEPT !.co.prev.txh = Append(@, Item("prev_input", txi))],
                   B.co.prev.k + 1)

\* A faulty variant of prev_output: the script version of the spent output
\* is not looked at.
prev_output_unversioned(B, txo_bin) ==
    PrevOutputsFrom(
        [B EXCEPT !.co.prev.txh = Append(@, Item("prev_output", txo_bin)),
                  !.co.prev.total_out =
                      IF B.co.prev.k = B.co.txi.prev_index
                      THEN @ + txo_bin.amount ELSE @],
        B.co.prev.k + 1)

\* decred.py:209-219, resumed with the host's previous output
prev_output(B, txo_bin) ==
    LET B1 == [B EXCEPT !.co.prev.txh = Append(@, Item("prev_output", txo_bin)),
                        !.co.prev.total_out =
                            IF B.co.prev.k = B.co.txi.prev_index
                            THEN @ + txo_bin.amount ELSE @]
    IN  IF /\ B.self.cls = "Decred"
           /\ B.co.prev.k = B.co.txi.prev_index
           /\ txo_bin.decred_script_version # NoneInt
           /\ txo_bin.decred_script_version # 0
        THEN Raise(B1, "ProcessError", "Cannot use utxo that has script_version != 0")
        ELSE PrevOutputsFrom(B1, B.co.prev.k + 1)

\* decred.py:183-186: the call, up to the meta request
get_prevtx_output_value(B) ==
    Request([B EXCEPT !.co.prev = [tx |-> PrevTx(1).meta, txh |-> <<>>,
                                   total_out |-> 0, k |-> 0]],
            "TXMETA", NoneInt, B.co.txi.prev_hash, "prev_meta")

---------------------------------------------------------------------------
(* Bitcoin.phase1_process_input (signing.py:159-206).                      *)

\* A faulty variant of phase1_multisig_fp: an input without a multisig
\* descriptor leaves the fingerprint as it is.
phase1_multisig_fp_unmarked(multisig_fp, txi) ==
    IF txi.multisig # 0 THEN multisig_fp_add(multisig_fp, txi.multisig)
    ELSE multisig_fp

\* signing.py:168-171: the multisig fingerprint after input txi
phase1_multisig_fp(multisig_fp, txi) ==
    IF txi.multisig # 0 THEN multisig_fp_add(multisig_fp, txi.multisig)
    ELSE [multisig_fp EXCEPT !.mismatch = TRUE]

\* signing.py:168-206: after the path was validated or confirmed
phase1_process_input_rest(B) ==
    LET txi == B.co.txi
        B1 == [B EXCEPT !.self.multisig_fp = phase1_multisig_fp(@, txi)]
    IN  IF txi.script_type \in {"SPENDWITNESS", "SPENDP2SHWITNESS"}
        THEN IF ~B.self.coin.segwit
             THEN Raise(B1, "DataError", "Segwit not enabled on this coin")
             ELSE IF Falsy(txi.amount)
             THEN Raise(B1, "DataError", "Segwit input without amount")
             ELSE Phase1InputDone(
                      [B1 EXCEPT !.self.segwit = Append(@, TRUE),
                                 !.self.bip143_in = @ + txi.amount,
                                 !.self.total_in = @ + txi.amount])
        ELSE IF txi.script_type \in {"SPENDADDRESS", "SPENDMULTISIG"}
        THEN IF B.self.coin.force_bip143 \/ B.self.coin.overwintered
             THEN IF Falsy(txi.amount)
                  THEN Raise(B1, "DataError", "Expected input with amount")
                  ELSE Phase1InputDone(
                           [B1 EXCEPT !.self.segwit = Append(@, FALSE),
                                      !.self.bip143_in = @ + txi.amount,
                                      !.self.total_in = @ + txi.amount])
             ELSE get_prevtx_output_value(
                      [B1 EXCEPT !.self.segwit = Append(@, FALSE)])
        ELSE Raise(B1, "DataError", "Wrong input script type")

\* signing.py:125-126 and 160-166, resumed with the host's input
phase1_input(B, txi) ==
    LET B1 == [B EXCEPT !.co.txi = txi,
                        !.co.weight = weight_add_input(@, txi),
                        !.self.wallet_path = input_extract_wallet_path(txi, @),
                        !.self.h_first = Append(@, write_tx_input_check(txi))]
    IN  IF ~HasOp(B.self.hash143.variant, "add_prevouts")
        THEN Raise(B1, "AttributeError", "add_prevouts")
        ELSE IF ~HasOp(B.self.hash143.variant, "add_sequence")
        THEN Raise(B1, "AttributeError", "add_sequence")
        ELSE
        LET B2 == [B1 EXCEPT !.self.hash143 =
                       hash143_add_sequence(hash143_add_prevouts(@, txi), txi)]
        IN  IF ~validate_full_path(txi.address_n)
            THEN Prompt(B2, "p1_foreign")
            ELSE phase1_process_input_rest(B2)


---------------------------------------------------------------------------
(* The state machine.                                                      *)

Cur == [self |-> self, co |-> co, wire |-> wire, ui |-> ui, err |-> err]

Becomes(B) ==
    /\ self' = B.self
    /\ co' = B.co
    /\ wire' = B.wire
    /\ ui' = B.ui
    /\ err' = B.err

\* the fields initialize() assigns (signing.py:74-96, decred.py:63-68)
Fields(cls, coin, tx) ==
    [cls |-> cls, coin |-> coin, tx |-> tx,
     multisig_fp |-> NewMultisigFingerprint,
     wallet_path |-> <<>>,
     bip143_in |-> 0,
     segwit |-> <<>>,
     total_in |-> 0,
     total_out |-> 0,
     change_out |-> 0,
     tx_req |-> NewTxRequest,
     h_first |-> <<>>,
     hash143 |-> IF cls = "Decred" THEN DecredPrefixHasher(tx)
                 ELSE NewHasher(init_hash143_variant(cls, coin, tx), <<>>),
     last_output_bytes |-> NoneBytes]

\* the coroutine before its first step
Locals ==
    [pc |-> "start", i |-> 0, txi |-> BaseInput, txo |-> BaseOutput,
     txo_bin |-> [amount |-> 0,
                  script_pubkey |-> [form |-> "", address |-> "", address_n |-> <<>>],
                  decred_script_version |-> NoneInt],
     weight |-> 0, fee |-> 0,
     tx_ser |-> TxRequestSerializedType(NoneInt, NoneRec, NoneBytes),
     any_segwit |-> FALSE,
     prev |-> [tx |-> PrevTx(1).meta, txh |-> <<>>, total_out |-> 0, k |-> 0]]

Init ==
    /\ \E cls \in Classes, coin \in Coins, profile \in Profiles :
         \E tx \in SignTxs(coin, profile) :
            /\ self = Fields(cls, coin, tx)
            /\ host = [profile |-> profile, p1_in |-> <<>>, p1_out |-> <<>>,
                       tamper_left |-> IF profile = "tamper" THEN MaxTamper ELSE 0,
                       tampered |-> <<>>, prev_tx |-> NoneRec]
    /\ co = Locals
    /\ wire = <<>>
    /\ ui = <<>>
    /\ err = NoError

\* signer (signing.py:55-71): initialize, then phase 1 up to its first await
Signer ==
    /\ co.pc = "start"
    /\ LET B == [Cur EXCEPT !.self = Fields(self.cls, self.coin, self.tx),
                            !.co.weight = TxWeightCalculator(self.tx.inputs_count,
                                                             self.tx.outputs_count)]
       IN  IF init_hash143_variant(self.cls, self.coin, self.tx) = ""
           THEN Becomes(Raise(B, "DataError",
                              "Unsupported version for overwintered transaction"))
           ELSE Becomes(Phase1Inputs(B, 0))
    /\ UNCHANGED host

\* the host answers the phase-1 request for input co.i
Phase1Input ==
    /\ co.pc = "p1_input"
    /\ \E txi \in InputsOf(host.profile) :
         /\ Becomes(phase1_input(Cur, txi))
         /\ host' = [host EXCEPT !.p1_in = Append(@, txi)]

\* the user answers confirm_foreign_address; signing.py:166 drops the answer
ConfirmForeignAddress ==
    /\ co.pc = "p1_foreign"
    /\ \E answer \in BOOLEAN :
         Becomes(phase1_process_input_rest(
                     Answered(Cur, "confirm_foreign_address", co.i, 0, answer)))
    /\ UNCHANGED host

\* the host's replies within get_prevtx_output_value
PrevMetaReplies ==
    IF host.profile = "prevtx" THEN PrevMetas ELSE {PrevTx(co.txi.prev_hash).meta}

PrevInputReplies ==
    IF host.profile = "prevtx" THEN PrevInputs
    ELSE {PrevTx(co.txi.prev_hash).inputs[co.prev.k + 1]}

PrevOutputReplies ==
    IF host.profile = "prevtx" THEN PrevOutputs
    ELSE {PrevTx(co.txi.prev_hash).outputs[co.prev.k + 1]}

PrevMeta ==
    /\ co.pc = "prev_meta"
    /\ \E tx \in PrevMetaReplies :
         /\ Becomes(prev_meta(Cur, tx))
         /\ host' = [host EXCEPT !.prev_tx = tx]

PrevInput ==
    /\ co.pc = "prev_input"
    /\ \E txi \in PrevInputReplies : Becomes(prev_input(Cur, txi))
    /\ UNCHANGED host

PrevOutput ==
    /\ co.pc = "prev_output"
    /\ \E txo_bin \in PrevOutputReplies :
         Becomes(prev_output(Cur, txo_bin))
    /\ UNCHANGED host

\* the host answers the phase-1 request for output co.i
Phase1Output ==
    /\ co.pc = "p1_output"
    /\ \E txo \in OutputsOf(host.profile) :
         /\ Becomes(phase1_output(Cur, txo))
         /\ host' = [host EXCEPT !.p1_out = Append(@, txo)]

\* the user answers confirm_output (signing.py:214-215)
ConfirmOutput ==
    /\ co.pc = "p1_confirm_output"
    /\ \E answer \in BOOLEAN :
         LET B == Answered(Cur, "confirm_output", co.i, co.txo.amount, answer) IN
         IF answer THEN Becomes(Phase1OutputTail(B))
         ELSE Becomes(Raise(B, "ActionCancelled", "Output cancelled"))
    /\ UNCHANGED host

\* the user answers confirm_feeoverthreshold (signing.py:147-148)
ConfirmFeeOverThreshold ==
    /\ co.pc = "p1_confirm_fee"
    /\ \E answer \in BOOLEAN :
         LET B == Answered(Cur, "confirm_feeoverthreshold", co.fee, 0, answer) IN
         IF answer THEN Becomes(Phase1Locktime(B))
         ELSE Becomes(Raise(B, "ActionCancelled", "Signing cancelled"))
    /\ UNCHANGED host

\* the user answers confirm_nondefault_locktime (signing.py:151-152)
ConfirmNondefaultLocktime ==
    /\ co.pc = "p1_confirm_locktime"
    /\ \E answer \in BOOLEAN :
         LET B == Answered(Cur, "confirm_nondefault_locktime",
                           self.tx.lock_time, 0, answer) IN
         IF answer THEN Becomes(Phase1Total(B))
         ELSE Becomes(Raise(B, "ActionCancelled", "Locktime cancelled"))
    /\ UNCHANGED host

\* the user answers confirm_total (signing.py:154-157); phase 2 starts
ConfirmTotal ==
    /\ co.pc = "p1_confirm_total"
    /\ \E answer \in BOOLEAN :
         LET B == Answered(Cur, "confirm_total",
                           self.total_in - self.change_out, co.fee, answer) IN
         IF answer THEN Becomes(Phase1Return(B))
         ELSE Becomes(Raise(B, "ActionCancelled", "Total cancelled"))
    /\ UNCHANGED host


\* the replies of the host in phase 2: what it sent in phase 1, or, while
\* it has deviations left, anything else of its range
Phase2InputReplies ==
    {host.p1_in[co.i + 1]}
    \cup (IF host.tamper_left > 0 THEN InputsOf(host.profile) ELSE {})

Phase2OutputReplies ==
    {host.p1_out[co.i + 1]}
    \cup (IF host.tamper_left > 0 THEN OutputsOf(host.profile) ELSE {})

\* the host after it answered `reply` to the request the signer waits on
Replied(kind, honest, reply) ==
    IF reply = honest THEN host
    ELSE [host EXCEPT !.tamper_left = @ - 1,
                      !.tampered = Append(@, [kind |-> kind, at |-> co.pc,
                                              i |-> co.i, was |-> honest,
                                              sent |-> reply])]

Phase2SegwitInput ==
    /\ co.pc = "p2_segwit_input"
    /\ \E txi \in Phase2InputReplies :
         /\ Becomes(phase2_serialize_segwit_input(Cur, txi))
         /\ host' = Replied("input", host.p1_in[co.i + 1], txi)

Phase2Bip143Input ==
    /\ co.pc = "p2_bip143_input"
    /\ \E txi \in Phase2InputReplies :
         /\ Becomes(phase2_sign_bip143_input(Cur, txi))
         /\ host' = Replied("input", host.p1_in[co.i + 1], txi)

Phase2Output ==
    /\ co.pc = "p2_output"
    /\ \E txo \in Phase2OutputReplies :
         /\ Becomes(phase2_serialize_output(Cur, txo))
         /\ host' = Replied("output", host.p1_out[co.i + 1], txo)

Phase2Witness ==
    /\ co.pc = "p2_witness"
    /\ \E txi \in Phase2InputReplies :
         /\ Becomes(phase2_sign_segwit_input(Cur, txi))
         /\ host' = Replied("input", host.p1_in[co.i + 1], txi)

DecredPhase2Input ==
    /\ co.pc = "d2_input"
    /\ \E txi \in Phase2InputReplies :
         /\ Becomes(decred_phase2_input(Cur, txi))
         /\ host' = Replied("input", host.p1_in[co.i + 1], txi)

Next ==
    \/ Signer
    \/ Phase1Input
    \/ ConfirmForeignAddress
    \/ PrevMeta
    \/ PrevInput
    \/ PrevOutput
    \/ Phase1Output
    \/ ConfirmOutput
    \/ ConfirmFeeOverThreshold
    \/ ConfirmNondefaultLocktime
    \/ ConfirmTotal
    \/ Phase2SegwitInput
    \/ Phase2Bip143Input
    \/ Phase2Output
    \/ Phase2Witness
    \/ DecredPhase2Input

Spec == Init /\ [][Next]_vars


---------------------------------------------------------------------------
(* What an observer of a session sees.                                     *)

Phase1Pcs ==
    {"start", "p1_input", "p1_foreign", "prev_meta", "prev_input",
     "prev_output", "p1_output", "p1_confirm_output", "p1_confirm_fee",
     "p1_confirm_locktime", "p1_confirm_total"}

Phase2Pcs ==
    {"p2_segwit_input", "p2_bip143_input", "p2_legacy_input", "p2_output",
     "p2_witness", "d2_input"}

\* the request m carries a signature in serialized.signature
HasSignature(m) ==
    /\ m.req.serialized # NoneRec
    /\ m.req.serialized.signature # NoneRec

\* the prompts of one kind the user has answered
PromptsAnswered(prompt) == {u \in 1..Len(ui) : ui[u].prompt = prompt}

\* how often a prompt was put to the user, the pending one included
TimesRequested(prompt, pending) ==
    Cardinality(PromptsAnswered(prompt)) + (IF co.pc = pending THEN 1 ELSE 0)

\* every input and every output of phase 1 went through its handler: each
\* wrote one item into h_first, and each input has its segwit entry
AllPhase1Processed ==
    /\ Len(self.segwit) = self.tx.inputs_count
    /\ Len(self.h_first) = self.tx.inputs_count + self.tx.outputs_count

---------------------------------------------------------------------------
(* Claims.                                                                 *)

\* C3: no request carrying a signature is sent before the user accepted
\* confirm_total; confirm_total is put to the user at most once, exactly
\* once in a session that entered phase 2, and only after every input and
\* every output of phase 1 was processed.
C3_NoSignatureBeforeConfirmTotal ==
    /\ \A k \in 1..Len(wire) :
         HasSignature(wire[k]) =>
            \E u \in PromptsAnswered("confirm_total") :
                ui[u].answer /\ ui[u].w < k
    /\ TimesRequested("confirm_total", "p1_confirm_total") <= 1
    /\ (co.pc \in Phase2Pcs \cup {"done"} =>
            TimesRequested("confirm_total", "p1_confirm_total") = 1)
    /\ (co.pc = "p1_confirm_total" => AllPhase1Processed)

\* C3 witness: a signature was sent, in a session with inputs and outputs
C3_Witness ==
    /\ \E k \in 1..Len(wire) : HasSignature(wire[k])
    /\ self.tx.inputs_count > 1
    /\ self.tx.outputs_count > 0


\* C1: the legacy signing path.  phase2_sign_legacy_input is entered for an
\* input only if the input is not segwit and the coin neither forces
\* BIP-143 nor is overwintered; such a coin's hasher is Bip143, which has
\* no add_prevouts, so phase 1 of the session ended at its first input (if it has one).
\* No session waits in the legacy path, and none of class Bitcoin waits in
\* the previous-transaction sub-protocol.
LegacyPathNotEntered ==
    /\ co.pc # "p2_legacy_input"
    /\ (self.cls = "Bitcoin" =>
            co.pc \notin {"prev_meta", "prev_input", "prev_output"})
    /\ (/\ self.cls = "Bitcoin"
        /\ self.hash143.variant = "Bip143"
        /\ self.tx.inputs_count > 0
        => co.pc \in {"start", "p1_input", "error"} /\ Len(self.segwit) = 0)


\* the deviation of the host's latest phase-2 reply, if this step had one
Deviates == Len(host'.tampered) > Len(host.tampered)
Deviation == host'.tampered[Len(host'.tampered)]

DetectedDeviation(t) ==
    /\ t.kind = "input"
    /\ \/ /\ self.wallet_path # None
          /\ DropWalletDepth(t.sent.address_n) # self.wallet_path
       \/ /\ self.cls = "Bitcoin"
          /\ input_is_segwit(t.sent) # input_is_segwit(t.was)
       \/ /\ t.at \in {"p2_bip143_input", "p2_witness"}
          /\ t.sent.amount > self.bip143_in

LatestReply == IF Deviates THEN Deviation.sent ELSE host.p1_in[co.i + 1]

\* the requests waited on at which an input is about to be signed against
\* bip143_in
Bip143SigningPcs == {"p2_bip143_input", "p2_witness"}

\* C4 as stated: an input whose phase-2 amount, when it is to be signed
\* against bip143_in, exceeds its own phase-1 amount ends the session with
\* ProcessError.
C4_PerInputAmountBounded ==
    \A k \in 1..Len(host.tampered) :
        LET t == host.tampered[k] IN
        (/\ t.kind = "input"
         /\ t.at \in Bip143SigningPcs
         /\ t.sent.amount > t.was.amount)
        => (co.pc = "error" /\ err.kind = "ProcessError")

\* C4, amended: bip143_in is never negative; an input whose phase-2 amount
\* exceeds what is left of bip143_in ends the session with ProcessError,
\* unsigned and with nothing sent; an input that is signed takes its
\* phase-2 amount off bip143_in.
C4_AmountWithinBip143In ==
    /\ [](self.bip143_in >= 0)
    /\ [][co.pc \in Bip143SigningPcs =>
             IF LatestReply.amount > self.bip143_in
             THEN /\ co'.pc = "error"
                  /\ err'.kind = "ProcessError"
                  /\ self'.tx_req = self.tx_req
                  /\ wire' = wire
             ELSE co'.pc # "error" =>
                     self'.bip143_in = self.bip143_in - LatestReply.amount]_vars

\* C4 witness: the BIP-143 pass was sent, for an input otherwise as in
\* phase 1, an amount above what was left of bip143_in, and the session
\* ended with ProcessError
C4_Witness ==
    /\ co.pc = "error"
    /\ err.kind = "ProcessError"
    /\ \E k \in 1..Len(host.tampered) :
         LET t == host.tampered[k] IN
         /\ t.at = "p2_bip143_input"
         /\ t.sent = [t.was EXCEPT !.amount = t.sent.amount]
         /\ t.sent.amount > self.bip143_in
         /\ self.bip143_in > 0


\* the phase-1 outputs folded into h_first so far: outputs 0..OutputsFolded-1
OutputsFolded == Cardinality({k \in 1..Len(self.h_first) : self.h_first[k].t = "output"})

\* the folded outputs no confirm_output prompt was answered for: those for
\* which phase1_confirm_output took the branch without confirmation
SilentOutputs ==
    {j \in 0..(OutputsFolded - 1) :
        ~\E u \in PromptsAnswered("confirm_output") : ui[u].a = j}

\* C5 as stated: at most one output of a session is accepted without
\* confirmation, whatever the outputs' amounts.
C5_AtMostOneSilentChange == Cardinality(SilentOutputs) <= 1


\* output_is_change for phase-1 output j, as phase1_confirm_output would
\* evaluate it: the wallet path and the multisig fingerprint it reads are
\* those the inputs left, no output changes them
IsChange(j) ==
    /\ ~output_is_change_raises(self, host.p1_out[j + 1])
    /\ output_is_change(self, host.p1_out[j + 1])

\* how often confirm_output was answered for output j
TimesConfirmed(j) ==
    Cardinality({u \in PromptsAnswered("confirm_output") : ui[u].a = j})

\* C6 as stated: a folded output for which output_is_change is true was
\* never put to the user, every other folded output exactly once.
C6_ConfirmOutputIffNotChange ==
    \A j \in 0..(OutputsFolded - 1) :
        IF IsChange(j) THEN TimesConfirmed(j) = 0 ELSE TimesConfirmed(j) = 1

\* C6, amended: a folded output was accepted without confirmation iff
\* output_is_change is true of it and every output accepted without
\* confirmation before it has amount 0 (change_out was still 0); every
\* other folded output was put to the user exactly once and accepted; the
\* output being confirmed is not such a first change output; an output
\* that is not folded was put to the user at most once; no confirm_output
\* is answered once a phase-2 request was sent.
C6_ConfirmOutputUnlessFirstChange ==
    /\ \A j \in 0..(OutputsFolded - 1) :
         /\ j \in SilentOutputs <=>
               /\ IsChange(j)
               /\ \A i \in SilentOutputs : i < j => host.p1_out[i + 1].amount = 0
         /\ j \notin SilentOutputs =>
               /\ TimesConfirmed(j) = 1
               /\ \A u \in PromptsAnswered("confirm_output") :
                     ui[u].a = j => ui[u].answer
    /\ \A u \in PromptsAnswered("confirm_output") :
         /\ ui[u].a >= OutputsFolded => TimesConfirmed(ui[u].a) = 1 /\ ~ui[u].answer
         /\ \A k \in 1..ui[u].w : wire[k].at \notin Phase2Pcs
    /\ co.pc = "p1_confirm_output" =>
         /\ co.i = OutputsFolded
         /\ TimesConfirmed(co.i) = 0
         /\ ~(self.change_out = 0 /\ IsChange(co.i))
    /\ co.pc \in Phase2Pcs \cup {"done"} => OutputsFolded = self.tx.outputs_count

\* C6 witness: two change outputs were folded, the first of a non-zero
\* amount and without confirmation, the second after the user confirmed it
C6_Witness ==
    /\ OutputsFolded = 2
    /\ IsChange(0) /\ IsChange(1)
    /\ host.p1_out[1].amount > 0
    /\ SilentOutputs = {0}
    /\ TimesConfirmed(1) = 1


\* C7 as stated, its last clause: evaluating output_is_change never indexes
\* address_n out of range, so no session ends with IndexError.
C7_OutputIsChangeNeverRaises == err.kind # "IndexError"


\* what a phase-1 input is worth: the amount it declares where phase 1
\* takes the declared amount, else the amount of the output it spends
InputValue(txi) ==
    IF input_is_segwit(txi) \/ self.coin.force_bip143 \/ self.coin.overwintered
    THEN txi.amount
    ELSE PrevTx(txi.prev_hash).outputs[txi.prev_index + 1].amount

RECURSIVE SumInputValues(_)
SumInputValues(s) ==
    IF s = <<>> THEN 0 ELSE InputValue(Head(s)) + SumInputValues(Tail(s))

RECURSIVE SumAmounts(_)
SumAmounts(s) == IF s = <<>> THEN 0 ELSE Head(s).amount + SumAmounts(Tail(s))

\* the awaits of phase 1 before the fee is computed
Phase1LoopPcs ==
    {"start", "p1_input", "p1_foreign", "prev_meta", "prev_input",
     "prev_output", "p1_output", "p1_confirm_output"}

\* the awaits after the fee check
AfterFeePcs ==
    {"p1_confirm_fee", "p1_confirm_locktime", "p1_confirm_total", "done"}
    \cup Phase2Pcs

FeePrompts ==
    {"confirm_feeoverthreshold", "confirm_nondefault_locktime", "confirm_total"}

\* C8: past the fee check the fee is total_in - total_out, total_in the
\* sum of the values of all phase-1 inputs and total_out the sum of the
\* amounts of all phase-1 outputs, and the fee is negative only if the
\* coin permits it; a session that ended with NotEnoughFunds had a
\* negative fee the coin does not permit, asked for no confirmation of
\* fee, locktime or total and computed no signature; and the step that
\* processes the last input or output with such a fee ends with
\* NotEnoughFunds.
C8_FeeCheck ==
    /\ [](co.pc \in AfterFeePcs =>
            /\ Len(host.p1_in) = self.tx.inputs_count
            /\ Len(host.p1_out) = self.tx.outputs_count
            /\ self.total_in = SumInputValues(host.p1_in)
            /\ self.total_out = SumAmounts(host.p1_out)
            /\ co.fee = self.total_in - self.total_out
            /\ (co.fee < 0 => self.coin.negative_fee)
            /\ \A u \in 1..Len(ui) :
                 /\ ui[u].prompt = "confirm_feeoverthreshold" => ui[u].a = co.fee
                 /\ ui[u].prompt = "confirm_total" => ui[u].b = co.fee)
    /\ [](err.kind = "NotEnoughFunds" =>
            /\ ~self.coin.negative_fee
            /\ self.total_in - self.total_out < 0
            /\ \A u \in 1..Len(ui) : ui[u].prompt \notin FeePrompts
            /\ \A k \in 1..Len(wire) : ~HasSignature(wire[k])
            /\ ~HasSignature([req |-> self.tx_req]))
    /\ [][(/\ co.pc \in Phase1LoopPcs
           /\ AllPhase1Processed'
           /\ self'.total_in - self'.total_out < 0
           /\ ~self.coin.negative_fee)
          => err'.kind = "NotEnoughFunds"]_vars

\* C8 witness: a session with inputs and outputs ended with NotEnoughFunds
C8_Witness ==
    /\ err.kind = "NotEnoughFunds"
    /\ self.total_in > 0
    /\ Len(host.p1_in) = 2
    /\ Len(host.p1_out) = 2

\* C8 witness of the permitted case: phase 2 was entered with a negative fee
C8_WitnessNegativeFee ==
    /\ co.pc \in Phase2Pcs
    /\ co.fee < 0


PrevPcs == {"prev_meta", "prev_input", "prev_output"}

InvalidPrevHash == [kind |-> "ProcessError", msg |-> "Encountered invalid prev_hash"]

\* the amount the previous transaction streamed to the signer gives its
\* output o, the item after the header, the inputs and the output count
StreamedAmount(prev, o) == prev.txh[2 + prev.tx.inputs_cnt + 1 + o + 1].v.amount

\* C9: a step of the previous-transaction sub-protocol changes total_in
\* only if the digest of the streamed transaction is the input's prev_hash,
\* and then by the amount the stream gives output prev_index; a stream
\* that is complete and has another digest ends the session with
\* ProcessError "Encountered invalid prev_hash" (unless the spent output's
\* script version already ended it), total_in unchanged, nothing sent and
\* nothing asked; and a session ended so has requested and confirmed no
\* output.
C9_PrevHashVerified ==
    /\ [][co.pc \in PrevPcs =>
            /\ self'.total_in # self.total_in =>
                  /\ get_tx_hash(self.cls, co'.prev.txh) = co.txi.prev_hash
                  /\ self'.total_in =
                        self.total_in + StreamedAmount(co'.prev, co.txi.prev_index)
                  /\ err' = NoError
            /\ err' = InvalidPrevHash =>
                  /\ get_tx_hash(self.cls, co'.prev.txh) # co.txi.prev_hash
                  /\ self'.total_in = self.total_in
                  /\ wire' = wire
                  /\ ui' = ui
            /\ (/\ co'.pc \notin PrevPcs
                /\ err'.msg \notin {"Not enough outputs in previous transaction.",
                                    "Cannot use utxo that has script_version != 0"}
                /\ get_tx_hash(self.cls, co'.prev.txh) # co.txi.prev_hash)
               => err' = InvalidPrevHash]_vars
    /\ [](err = InvalidPrevHash =>
            /\ co.pc = "error"
            /\ \A k \in 1..Len(wire) : wire[k].at # "p1_output"
            /\ \A u \in 1..Len(ui) : ui[u].prompt # "confirm_output")

\* C9 witness: the host streamed a previous transaction that differs from
\* the one prev_hash names in the amount of the spent output only, and the
\* session ended with ProcessError "Encountered invalid prev_hash"
C9_Witness ==
    /\ err = InvalidPrevHash
    /\ co.prev.tx = PrevTx(co.txi.prev_hash).meta
    /\ co.prev.total_out # PrevTx(co.txi.prev_hash).outputs[co.txi.prev_index + 1].amount
    /\ self.total_in = 0

\* C9 witness of the accepted case: a second input's previous transaction
\* was verified and its output's amount added to total_in
C9_WitnessVerified ==
    /\ self.cls = "Decred"
    /\ Len(self.segwit) = 2
    /\ co.pc = "p1_output"
    /\ self.total_in = 3


\* the requests sent while waiting at one of the labels, in order
RequestsAt(labels) == SelectSeq(wire, LAMBDA m : m.at \in labels)

\* the requests of a loop carry the indices 0, 1, 2, ... and the type
Counts(reqs, type) ==
    \A k \in 1..Len(reqs) :
        /\ reqs[k].req.request_index = k - 1
        /\ reqs[k].req.request_type = type

\* the stage of the session a request belongs to
StageOf(m) ==
    CASE m.at \in {"p1_input"} \cup PrevPcs -> 1
      [] m.at = "p1_output" -> 2
      [] m.at \in {"p2_segwit_input", "p2_bip143_input", "p2_legacy_input",
                   "d2_input"} -> 4
      [] m.at = "p2_output" -> 5
      [] m.at = "p2_witness" -> 6
      [] OTHER -> 7

P1InputRequests == RequestsAt({"p1_input"})
P1OutputRequests == RequestsAt({"p1_output"})
P2InputRequests ==
    RequestsAt({"p2_segwit_input", "p2_bip143_input", "p2_legacy_input"})
P2OutputRequests == RequestsAt({"p2_output"})
P2WitnessRequests == RequestsAt({"p2_witness"})
FinishRequests == RequestsAt({"finish"})

\* request n may directly follow request m within the input stage of
\* phase 1: the next input, or the next step of the previous-transaction
\* sub-protocol of the input requested last
FollowsInPhase1Inputs(m, n) ==
    CASE m.at = "p1_input" ->
           \/ n.at = "p1_input" /\ n.req.request_index = m.req.request_index + 1
           \/ n.at = "prev_meta" /\ n.req.request_type = "TXMETA"
      [] m.at = "prev_meta" ->
           /\ n.at \in {"prev_input", "prev_output"}
           /\ n.req.request_index = 0
           /\ n.req.tx_hash = m.req.tx_hash
      [] m.at = "prev_input" ->
           /\ n.req.tx_hash = m.req.tx_hash
           /\ \/ n.at = "prev_input" /\ n.req.request_index = m.req.request_index + 1
              \/ n.at = "prev_output" /\ n.req.request_index = 0
      [] OTHER ->
           \/ /\ n.at = "prev_output"
              /\ n.req.request_index = m.req.request_index + 1
              /\ n.req.tx_hash = m.req.tx_hash
           \/ n.at = "p1_input"

\* the number of segwit inputs below input i
SegwitBelow(i) == Cardinality({j \in 0..(i - 1) : self.segwit[j + 1]})

\* C10: the requests of a session follow the order phase-1 inputs (each
\* input's previous-transaction sub-protocol directly after it), phase-1
\* outputs, the confirmations, and in a Bitcoin session phase-2 inputs,
\* phase-2 outputs, witnesses of the segwit inputs, one TXFINISHED; within
\* each loop the indices ascend from 0 without gap, a loop starts only when
\* the one before it is complete, and nothing follows TXFINISHED.
C10_RequestOrder ==
    /\ \A k \in 1..Len(wire), l \in 1..Len(wire) :
         k < l => StageOf(wire[k]) <= StageOf(wire[l])
    /\ \A k \in 1..(Len(wire) - 1) :
         StageOf(wire[k + 1]) = 1 => FollowsInPhase1Inputs(wire[k], wire[k + 1])
    /\ Counts(P1InputRequests, "TXINPUT")
    /\ Counts(P1OutputRequests, "TXOUTPUT")
    /\ Len(P1InputRequests) <= self.tx.inputs_count
    /\ Len(P1OutputRequests) <= self.tx.outputs_count
    /\ (Len(P1OutputRequests) > 0 => Len(P1InputRequests) = self.tx.inputs_count)
    /\ \A u \in 1..Len(ui) :
         ui[u].prompt \in FeePrompts =>
            /\ \A k \in 1..Len(wire) : k <= ui[u].w <=> StageOf(wire[k]) <= 2
            /\ Len(P1InputRequests) = self.tx.inputs_count
            /\ Len(P1OutputRequests) = self.tx.outputs_count
    /\ self.cls = "Bitcoin" =>
         /\ Counts(P2InputRequests, "TXINPUT")
         /\ Counts(P2OutputRequests, "TXOUTPUT")
         /\ Len(P2InputRequests) <= self.tx.inputs_count
         /\ Len(P2OutputRequests) <= self.tx.outputs_count
         /\ \A k \in 1..Len(P2InputRequests) :
              P2InputRequests[k].at =
                 IF self.segwit[k] THEN "p2_segwit_input" ELSE "p2_bip143_input"
         /\ (Len(P2InputRequests) > 0 =>
                /\ Len(P1OutputRequests) = self.tx.outputs_count
                /\ \E u \in PromptsAnswered("confirm_total") : ui[u].answer)
         /\ (Len(P2OutputRequests) > 0 =>
                Len(P2InputRequests) = self.tx.inputs_count)
         /\ \A k \in 1..Len(P2WitnessRequests) :
              LET i == P2WitnessRequests[k].req.request_index IN
              /\ P2WitnessRequests[k].req.request_type = "TXINPUT"
              /\ self.segwit[i + 1]
              /\ SegwitBelow(i) = k - 1
         /\ (Len(P2WitnessRequests) > 0 =>
                Len(P2OutputRequests) = self.tx.outputs_count)
         /\ Len(FinishRequests) <= 1
         /\ (Len(FinishRequests) = 1 <=> co.pc = "done")
         /\ (co.pc = "done" =>
                /\ wire[Len(wire)].at = "finish"
                /\ wire[Len(wire)].req.request_type = "TXFINISHED"
                /\ Len(P2InputRequests) = self.tx.inputs_count
                /\ Len(P2OutputRequests) = self.tx.outputs_count
                /\ Len(P2WitnessRequests) = SegwitBelow(self.tx.inputs_count))

\* C10 witness: a Bitcoin session with a non-segwit and a segwit input and
\* two outputs has sent TXFINISHED
C10_Witness ==
    /\ self.cls = "Bitcoin"
    /\ co.pc = "done"
    /\ self.segwit = <<FALSE, TRUE>>
    /\ self.tx.outputs_count = 2
    /\ Len(P2WitnessRequests) = 1


---------------------------------------------------------------------------
(* The stream of serialized_tx fragments the host receives.                *)

\* the serialized_tx bytes a request carries, none where tx_req.serialized
\* or its serialized_tx is None
Fragment(m) ==
    IF m.req.serialized = NoneRec THEN <<>>
    ELSE IF m.req.serialized.serialized_tx = NoneBytes THEN <<>>
    ELSE m.req.serialized.serialized_tx

\* the fragments of the first k requests, concatenated in emission order
RECURSIVE SentStream(_)
SentStream(k) ==
    IF k = 0 THEN <<>> ELSE SentStream(k - 1) \o Fragment(wire[k])

\* what each item of a stream is
Kinds(stream) == [k \in 1..Len(stream) |-> stream[k].t]

Repeat(kind, n) == [k \in 1..n |-> kind]

\* the kinds of a complete transaction of the session's coin: header,
\* inputs, count of outputs, outputs, witness region, lock time, trailer
TransactionKinds ==
    (IF self.coin.overwintered
     THEN <<"version_overwintered", "version_group_id">> ELSE <<"version">>)
    \o (IF AnySegwit(self.segwit) THEN <<"segwit_marker", "segwit_flag">> ELSE <<>>)
    \o <<"inputs_count">>
    \o Repeat("input", self.tx.inputs_count)
    \o <<"outputs_count">>
    \o Repeat("output", self.tx.outputs_count)
    \o (IF AnySegwit(self.segwit)
        THEN [i \in 1..self.tx.inputs_count |->
                 IF self.segwit[i] THEN "witness" ELSE "empty_witness"]
        ELSE <<>>)
    \o <<"lock_time">>
    \o (IF ~self.coin.overwintered THEN <<>>
        ELSE IF self.tx.version = 3 THEN <<"expiry", "nJoinSplit">>
        ELSE <<"expiry", "valueBalance", "nShieldedSpend", "nShieldedOutput",
               "nJoinSplit">>)

\* the items of one kind in a stream, in order
ItemsOfKind(stream, kind) == SelectSeq(stream, LAMBDA it : it.t = kind)

\* the stream spends the inputs and pays the outputs the host declared, in
\* their order
DeclaredInStream(stream) ==
    LET ins == ItemsOfKind(stream, "input")
        outs == ItemsOfKind(stream, "output")
        counts == ItemsOfKind(stream, "outputs_count")
    IN  /\ \A i \in 1..Len(ins) :
              /\ i <= Len(host.p1_in)
              /\ ins[i].v.prev_hash = host.p1_in[i].prev_hash
              /\ ins[i].v.prev_index = host.p1_in[i].prev_index
              /\ ins[i].v.sequence = host.p1_in[i].sequence
        /\ \A j \in 1..Len(outs) :
              /\ j <= Len(host.p1_out)
              /\ outs[j].v.amount = host.p1_out[j].amount
              /\ outs[j].v.script_pubkey.address = host.p1_out[j].address
              /\ outs[j].v.script_pubkey.address_n = host.p1_out[j].address_n
        /\ \A c \in 1..Len(counts) : counts[c].v.n = self.tx.outputs_count

\* a Bitcoin session with inputs completed, and the host replayed phase 1
SuccessfulBitcoinSession ==
    /\ self.cls = "Bitcoin"
    /\ co.pc = "done"
    /\ self.tx.inputs_count >= 1
    /\ host.tampered = <<>>

\* C11: in a successful Bitcoin session with at least one input, whatever
\* the number of outputs, the fragments sent to the host, concatenated in
\* emission order, are the header, each input once and in order, the count
\* of outputs, each output once and in order, the witness region, the lock
\* time and the coin's trailer: nothing is dropped or sent twice.
C11_StreamIsTransaction ==
    SuccessfulBitcoinSession =>
        /\ Kinds(SentStream(Len(wire))) = TransactionKinds
        /\ DeclaredInStream(SentStream(Len(wire)))

\* C11 for sessions with at least one output: the stream is the transaction
C11_StreamIsTransactionWithOutputs ==
    (SuccessfulBitcoinSession /\ self.tx.outputs_count >= 1) =>
        /\ Kinds(SentStream(Len(wire))) = TransactionKinds
        /\ DeclaredInStream(SentStream(Len(wire)))

\* a successful session with a segwit and a non-segwit input and two
\* outputs, of which the whole transaction was streamed
C11_WitnessMixed ==
    /\ SuccessfulBitcoinSession
    /\ self.segwit = <<TRUE, FALSE>>
    /\ self.tx.outputs_count = 2
    /\ Kinds(SentStream(Len(wire))) = TransactionKinds

---------------------------------------------------------------------------
(* The witness region.                                                     *)

\* the witness entries sent to the host so far, in emission order
WitnessRegion ==
    SelectSeq(SentStream(Len(wire)),
              LAMBDA it : it.t \in {"witness", "empty_witness"})

\* the positions the witness pass (signing.py:246-261) has left behind
WitnessPositionsPassed ==
    CASE co.pc = "p2_witness" -> co.i
      [] co.pc = "done" -> self.tx.inputs_count
      [] OTHER -> 0

\* every position the pass has left behind has its entry when an input is
\* segwit; there are no entries when none is
WitnessRegionComplete ==
    IF ~AnySegwit(self.segwit) THEN WitnessRegion = <<>>
    ELSE co.pc \in {"p2_witness", "done"} =>
            Len(WitnessRegion) = WitnessPositionsPassed

\* the entries of the witness region are those of the inputs in ascending
\* order: witness data at the positions phase 1 classified as segwit, made
\* for that input, a single empty witness at every other position
WitnessRegionInOrder ==
    \A k \in 1..Len(WitnessRegion) :
        /\ k <= Len(self.segwit)
        /\ WitnessRegion[k].t = IF self.segwit[k] THEN "witness" ELSE "empty_witness"
        /\ (self.segwit[k] /\ host.tampered = <<>>) =>
               WitnessRegion[k].v.signature.digest.txi = host.p1_in[k]
        /\ ~self.segwit[k] => WitnessRegion[k].v = [n |-> 0]

\* the TypeError of signing.py:255: tx_ser.serialized_tx is None when the
\* empty witness is to be appended
EmptyWitnessRaised ==
    err = [kind |-> "TypeError", msg |-> "NoneType += bytearray"]

\* C12: in a Bitcoin session every position the witness pass has left
\* behind has its entry in the stream when an input is segwit, witness data
\* exactly at the segwit positions and one 0x00 byte at every other, in
\* ascending order, and no position has an entry when no input is segwit;
\* no position is left without its entry by an error of the pass itself.
C12_WitnessRegion ==
    self.cls = "Bitcoin" =>
        /\ WitnessRegionInOrder
        /\ WitnessRegionComplete
        /\ ~EmptyWitnessRaised

\* C12 without the error of the pass: what is in the stream is in order
C12_WitnessRegionOfStream ==
    self.cls = "Bitcoin" =>
        /\ WitnessRegionInOrder
        /\ WitnessRegionComplete
        /\ EmptyWitnessRaised => self.tx.outputs_count = 0

\* sessions completed with a non-segwit position before, and after, a
\* segwit one
C12_WitnessEmptyFirst ==
    /\ self.cls = "Bitcoin" /\ co.pc = "done"
    /\ self.segwit = <<FALSE, TRUE>>
    /\ Len(WitnessRegion) = 2

C12_WitnessEmptyLast ==
    /\ self.cls = "Bitcoin" /\ co.pc = "done"
    /\ self.segwit = <<TRUE, FALSE>>
    /\ Len(WitnessRegion) = 2

---------------------------------------------------------------------------
(* Declined confirmations.                                                 *)

\* the session ended with ActionCancelled at prompt u: nothing was asked
\* and nothing was sent after it
CancelledAt(u) ==
    /\ co.pc = "error"
    /\ err.kind = "ActionCancelled"
    /\ u = Len(ui)
    /\ Len(wire) = ui[u].w

ConfirmationKinds ==
    {"confirm_output", "confirm_feeoverthreshold", "confirm_nondefault_locktime",
     "confirm_total", "confirm_foreign_address"}

\* C13: a confirmation of any kind that the user declined ended the session
\* with ActionCancelled; no request, and so no signature, follows it.
C13_NegativeConfirmationIsFatal ==
    \A u \in 1..Len(ui) :
        (ui[u].prompt \in ConfirmationKinds /\ ~ui[u].answer) => CancelledAt(u)

\* C13 for the four kinds whose answer phase 1 tests
C13_TestedConfirmationsAreFatal ==
    \A u \in 1..Len(ui) :
        (ui[u].prompt \in ConfirmationKinds \ {"confirm_foreign_address"}
            /\ ~ui[u].answer) => CancelledAt(u)

\* a session whose user declined a foreign path and which sent TXFINISHED
C13_DeclinedForeignAddressSigned ==
    /\ co.pc = "done"
    /\ \E u \in 1..Len(ui) :
          ui[u].prompt = "confirm_foreign_address" /\ ~ui[u].answer
    /\ \E k \in 1..Len(wire) : HasSignature(wire[k])

---------------------------------------------------------------------------
(* Errors.                                                                 *)

\* C14: an error ends the session.  Once an error was raised the coroutine
\* is over: no request is sent, no prompt is shown, no field changes, and
\* TXFINISHED was not and will not be sent.
C14_ErrorsAreFatal ==
    /\ [](err # NoError => (co.pc = "error" /\ FinishRequests = <<>>))
    /\ [](co.pc = "error" => err # NoError)
    /\ [][err # NoError => UNCHANGED <<self, co, wire, ui, err>>]_vars

\* C14 witness: an error was raised in phase 2, after a signature was sent
C14_Witness ==
    /\ co.pc = "error"
    /\ err.kind = "ProcessError"
    /\ \E k \in 1..Len(wire) : StageOf(wire[k]) >= 4 /\ HasSignature(wire[k])

---------------------------------------------------------------------------
(* Signatures and errors.                                                  *)

\* the requests answered by an input that is then signed
SigningPcs == {"p2_bip143_input", "p2_legacy_input", "p2_witness", "d2_input"}

---------------------------------------------------------------------------
(* The error surface.                                                      *)

FailureKinds ==
    {"DataError", "ProcessError", "NotEnoughFunds", "ActionCancelled",
     "FirmwareError"}

\* the errors Python itself raises, where the code has no raise statement
PythonErrors == {"AttributeError", "TypeError", "IndexError"}

\* C16 as stated: every error a raise statement of the signing core
\* constructs carries one of the failure kinds and a message.
C16_RaiseSitesAreStructured ==
    (err # NoError /\ err.kind \notin PythonErrors) =>
        (err.kind \in FailureKinds /\ err.msg # "")

\* the raise statements that pass a kind and a message do so in this order:
\* every error other than the two raised with a single argument
\* (signing.py:607, decred.py:132) and Python's own is structured
C16_OtherRaiseSitesAreStructured ==
    (err # NoError /\ err.kind \notin PythonErrors
        /\ err.kind \notin {"Unknown cashaddr address type",
                            "Unsupported input script type"}) =>
        (err.kind \in FailureKinds /\ err.msg # "")

\* both single-argument raise statements are reached
C16_ReachedDecred ==
    err.kind = "Unsupported input script type" /\ self.cls = "Decred"

C16_ReachedCashaddr == err.kind = "Unknown cashaddr address type"

---------------------------------------------------------------------------
(* The multisig fingerprint.                                               *)

\* the phase-1 inputs that went through signing.py:168-171: all the host
\* sent but the last, and the last once it was classified
InputsFingerprinted ==
    IF Len(self.segwit) = Len(host.p1_in) THEN Len(host.p1_in)
    ELSE IF Len(host.p1_in) = 0 THEN 0 ELSE Len(host.p1_in) - 1

\* C17: the mismatch flag of the multisig fingerprint starts false, is true
\* once a phase-1 input without a multisig descriptor was processed, and is
\* never reset; so while it is false every input processed carried a
\* descriptor, and a multisig output is accepted without confirmation only
\* if every input before it carried that output's descriptor.
C17_MismatchMonotone ==
    /\ [](co.pc = "start" => self.multisig_fp.mismatch = FALSE)
    /\ [][self.multisig_fp.mismatch => self'.multisig_fp.mismatch]_vars
    /\ [](\A i \in 1..InputsFingerprinted :
             host.p1_in[i].multisig = 0 => self.multisig_fp.mismatch)
    /\ [](\A j \in SilentOutputs :
             host.p1_out[j + 1].multisig # 0 =>
                /\ ~self.multisig_fp.mismatch
                /\ host.p1_in # <<>>
                /\ \A i \in 1..Len(host.p1_in) :
                      host.p1_in[i].multisig = host.p1_out[j + 1].multisig)

\* C17 witness: a multisig output was accepted without confirmation after
\* an input with the same descriptor
C17_Witness ==
    \E j \in SilentOutputs :
        /\ host.p1_out[j + 1].multisig # 0
        /\ host.p1_in # <<>>
        /\ ~self.multisig_fp.mismatch

\* C17 witness of the other case: a multisig output that is change in all
\* but the fingerprint was put to the user after a non-multisig input
C17_WitnessMismatch ==
    /\ self.multisig_fp.mismatch
    /\ \E u \in PromptsAnswered("confirm_output") :
          /\ host.p1_out[ui[u].a + 1].multisig # 0
          /\ self.wallet_path = DropWalletDepth(host.p1_out[ui[u].a + 1].address_n)
          /\ self.change_out = 0

---------------------------------------------------------------------------
(* The wallet path.                                                        *)

\* address_n without its last two elements, where it has more than two
HasWalletPrefix(txi) == Len(txi.address_n) > 2
WalletPrefix(txi) == SubSeq(txi.address_n, 1, Len(txi.address_n) - 2)

\* every input phase 1 was sent is long enough and has the prefix of the
\* first
InputsShareWalletPrefix ==
    \A i \in 1..Len(host.p1_in) :
        /\ HasWalletPrefix(host.p1_in[i])
        /\ WalletPrefix(host.p1_in[i]) = WalletPrefix(host.p1_in[1])

\* C18: the wallet path is empty before the first input; after that it is
\* the prefix of the first input as long as every input so far is longer
\* than two elements and has that prefix, and absent otherwise; once absent
\* it stays absent.  So a wallet path present after phase 1 is the prefix
\* of every phase-1 input.
C18_WalletPathNarrows ==
    /\ [](host.p1_in = <<>> => self.wallet_path = <<>>)
    /\ [](host.p1_in # <<>> =>
             self.wallet_path = IF InputsShareWalletPrefix
                                THEN WalletPrefix(host.p1_in[1]) ELSE None)
    /\ [][self.wallet_path = None => self'.wallet_path = None]_vars

\* C18 witness: a short first input made the path absent and a later input
\* with a proper path did not bring it back
C18_Witness ==
    /\ Len(host.p1_in) = 2
    /\ ~HasWalletPrefix(host.p1_in[1])
    /\ HasWalletPrefix(host.p1_in[2])
    /\ self.wallet_path = None

\* C18 witness of the narrowing: a second input with another prefix
C18_WitnessMismatch ==
    /\ Len(host.p1_in) = 2
    /\ HasWalletPrefix(host.p1_in[1]) /\ HasWalletPrefix(host.p1_in[2])
    /\ WalletPrefix(host.p1_in[1]) # WalletPrefix(host.p1_in[2])
    /\ self.wallet_path = None

\* C18 witness of the present path: phase 1 is over with two inputs
C18_WitnessPresent ==
    /\ Len(host.p1_in) = 2
    /\ co.pc \in Phase2Pcs
    /\ self.wallet_path = WalletPrefix(host.p1_in[2])

---------------------------------------------------------------------------
(* The signature sent with a witness.                                      *)

\* the request after the k-th one hands the host the witness of the input
\* the k-th request asked for
DeliversWitness(k) ==
    /\ k < Len(wire)
    /\ wire[k].at = "p2_witness"
    /\ ItemsOfKind(Fragment(wire[k + 1]), "witness") # <<>>

\* that request carries the input's index and the signature of its witness
CarriesSignature(k) ==
    LET ser == wire[k + 1].req.serialized
        w == ItemsOfKind(Fragment(wire[k + 1]), "witness")[1]
    IN  /\ ser.signature_index = wire[k].req.request_index
        /\ ser.signature = w.v.signature

\* the input after the one the k-th request asked for is not segwit
NonSegwitFollows(k) ==
    LET i == wire[k].req.request_index IN
    i + 2 <= self.tx.inputs_count /\ ~self.segwit[i + 2]

\* C19: in a successful Bitcoin session, the request that delivers the
\* witness of segwit input i carries signature_index = i and the signature
\* of input i, for every mix of input types.
C19_WitnessCarriesSignature ==
    SuccessfulBitcoinSession =>
        \A k \in 1..Len(wire) : DeliversWitness(k) => CarriesSignature(k)

\* C19, the part that holds: the witness of a segwit input that is the last
\* input or is followed by a segwit input comes with its index and signature
C19_WitnessCarriesSignatureUnlessNonSegwitFollows ==
    SuccessfulBitcoinSession =>
        \A k \in 1..Len(wire) :
            DeliversWitness(k) /\ ~NonSegwitFollows(k) => CarriesSignature(k)

\* C19, the part that fails: the witness of a segwit input followed by a
\* non-segwit input always comes without index and signature
C19_SignatureDroppedWhenNonSegwitFollows ==
    SuccessfulBitcoinSession =>
        \A k \in 1..Len(wire) :
            DeliversWitness(k) /\ NonSegwitFollows(k) =>
                /\ wire[k + 1].req.serialized.signature_index = NoneInt
                /\ wire[k + 1].req.serialized.signature = NoneRec

\* a segwit input's witness was delivered with its signature: as the last
\* input before the trailer, and before another segwit input
C19_ReachedLast ==
    /\ SuccessfulBitcoinSession
    /\ \E k \in 1..Len(wire) :
          /\ DeliversWitness(k) /\ CarriesSignature(k)
          /\ wire[k + 1].at = "finish"

C19_ReachedBeforeSegwit ==
    /\ SuccessfulBitcoinSession
    /\ \E k \in 1..Len(wire) :
          /\ DeliversWitness(k) /\ CarriesSignature(k)
          /\ wire[k + 1].at = "p2_witness"

\* a segwit input's witness was delivered without index and signature, in a
\* session with outputs
C19_ReachedDropped ==
    /\ SuccessfulBitcoinSession
    /\ self.tx.outputs_count >= 1
    /\ \E k \in 1..Len(wire) :
          /\ DeliversWitness(k) /\ NonSegwitFollows(k)
          /\ wire[k + 1].req.serialized.signature = NoneRec

---------------------------------------------------------------------------
(* The confirmations after the fee check.                                  *)

\* the calculator total over the inputs and outputs phase 1 was sent
RECURSIVE WeightOfInputs(_)
WeightOfInputs(k) ==
    IF k = 0 THEN TxWeightCalculator(self.tx.inputs_count, self.tx.outputs_count)
    ELSE weight_add_input(WeightOfInputs(k - 1), host.p1_in[k])

RECURSIVE WeightOfOutputs(_)
WeightOfOutputs(k) ==
    IF k = 0 THEN WeightOfInputs(Len(host.p1_in))
    ELSE weight_add_output(WeightOfOutputs(k - 1),
             output_derive_script(self.coin, host.p1_out[k]).script_pubkey)

\* the prompts about fee, locktime and total put to the user so far, in
\* order, the pending one included
FeePromptsRequested ==
    LET answered == SelectSeq(ui, LAMBDA e : e.prompt \in FeePrompts)
    IN  [u \in 1..Len(answered) |-> answered[u].prompt]
        \o (CASE co.pc = "p1_confirm_fee" -> <<"confirm_feeoverthreshold">>
              [] co.pc = "p1_confirm_locktime" -> <<"confirm_nondefault_locktime">>
              [] co.pc = "p1_confirm_total" -> <<"confirm_total">>
              [] OTHER -> <<>>)

\* the prompts the fee, the weight and the locktime of the session call for
FeePromptsDue ==
    (IF co.fee * 4000 > self.coin.maxfee_kb * WeightOfOutputs(Len(host.p1_out))
     THEN <<"confirm_feeoverthreshold">> ELSE <<>>)
    \o (IF self.tx.lock_time # 0 THEN <<"confirm_nondefault_locktime">> ELSE <<>>)
    \o <<"confirm_total">>

IsPrefix(s, t) == Len(s) <= Len(t) /\ s = SubSeq(t, 1, Len(s))

C20_WitnessTotalOnly ==
    /\ co.pc \in Phase2Pcs
    /\ FeePromptsRequested = <<"confirm_total">>
    /\ self.tx.outputs_count = 2

\* C20 witnesses of one optional prompt without the other
C20_WitnessFeeOnly ==
    /\ co.pc = "done"
    /\ FeePromptsRequested = <<"confirm_feeoverthreshold", "confirm_total">>

C20_WitnessLocktimeOnly ==
    /\ co.pc = "done"
    /\ FeePromptsRequested = <<"confirm_nondefault_locktime", "confirm_total">>

---------------------------------------------------------------------------
(* The multisig fingerprint in phase 2.                                    *)

\* the requests answered by an input that a reachable session then signs:
\* the BIP-143 pass, the witness pass and Decred's phase 2 (no session
\* waits in the legacy pass)
FingerprintCheckedPcs == {"p2_bip143_input", "p2_witness", "d2_input"}

\* the input carries a multisig descriptor with the stored fingerprint
CarriesFingerprint(txi) ==
    txi.multisig # 0 /\ txi.multisig = self.multisig_fp.fingerprint

\* C21: phase 2 leaves the multisig fingerprint as phase 1 left it.  While
\* its mismatch is false, an input sent to be signed in phase 2 that has no
\* multisig descriptor or one of another fingerprint ends the session with
\* ProcessError, with no signature computed and nothing sent; so every
\* signature sent is of an input carrying the stored fingerprint.  With
\* mismatch true no signature is held back by the fingerprint.
C21_FingerprintChecked ==
    /\ [][co.pc \in Phase2Pcs => self'.multisig_fp = self.multisig_fp]_vars
    /\ [][(/\ co.pc \in FingerprintCheckedPcs
           /\ self.multisig_fp.mismatch = FALSE
           /\ ~CarriesFingerprint(LatestReply))
          => /\ co'.pc = "error"
             /\ err' = [kind |-> "ProcessError", msg |-> ProcessErrorChanged]
             /\ self'.tx_req = self.tx_req
             /\ wire' = wire]_vars
    /\ [](self.multisig_fp.mismatch = FALSE =>
            \A k \in 1..Len(wire) :
                HasSignature(wire[k]) =>
                    CarriesFingerprint(wire[k].req.serialized.signature.digest.txi))

\* C21 witness: after a phase 1 of multisig inputs of one fingerprint, a
\* phase-2 reply with another descriptor ended the session
C21_Witness ==
    /\ co.pc = "error"
    /\ err.kind = "ProcessError"
    /\ self.multisig_fp.mismatch = FALSE
    /\ self.tx.inputs_count = 2
    /\ host.tampered # <<>>
    /\ host.tampered[1].at \in FingerprintCheckedPcs
    /\ host.tampered[1].was.multisig = 1
    /\ host.tampered[1].sent = [host.tampered[1].was EXCEPT !.multisig = 2]

\* C21 witness of the descriptor dropped, in the witness pass
C21_WitnessDropped ==
    /\ co.pc = "error"
    /\ err.kind = "ProcessError"
    /\ self.multisig_fp.mismatch = FALSE
    /\ host.tampered # <<>>
    /\ host.tampered[1].at = "p2_witness"
    /\ host.tampered[1].was.multisig = 1
    /\ host.tampered[1].sent.multisig = 0
    /\ host.tampered[1].sent.script_type = "SPENDWITNESS"

\* C21 witness of the check passed: a signature was sent with mismatch false
C21_WitnessSigned ==
    /\ self.multisig_fp.mismatch = FALSE
    /\ self.tx.inputs_count = 2
    /\ \E k \in 1..Len(wire) : HasSignature(wire[k])

\* C21 witness of the check skipped: with mismatch true an input was signed
\* whose descriptor is not the one phase 1 saw
C21_WitnessSkipped ==
    /\ self.multisig_fp.mismatch = TRUE
    /\ host.tampered # <<>>
    /\ host.tampered[1].sent.multisig # host.tampered[1].was.multisig
    /\ \E k \in 1..Len(wire) :
          /\ HasSignature(wire[k])
          /\ wire[k].req.serialized.signature.digest.txi = host.tampered[1].sent

---------------------------------------------------------------------------
(* The wallet path in phase 2.                                             *)

\* the requests of phase 2 that are answered by an input (no session waits
\* in the legacy pass)
Phase2InputPcs == {"p2_segwit_input", "p2_bip143_input", "p2_witness", "d2_input"}

\* the input lies outside the wallet path phase 1 left
LeavesWalletPath(txi) ==
    /\ self.wallet_path # None
    /\ SubSeq(txi.address_n, 1, Len(txi.address_n) - BIP32_WALLET_DEPTH)
          # self.wallet_path

\* what else of an input phase 2 refuses as changed: a script type of the
\* other class, a descriptor without the stored fingerprint where the input
\* is to be signed, an amount above what is left of bip143_in
RefusedForAnotherReason(txi) ==
    \/ /\ co.pc \in {"p2_segwit_input", "p2_witness"}
       /\ txi.script_type \notin {"SPENDWITNESS", "SPENDP2SHWITNESS"}
    \/ /\ co.pc = "p2_bip143_input"
       /\ txi.script_type \notin {"SPENDADDRESS", "SPENDMULTISIG"}
    \/ /\ co.pc \in FingerprintCheckedPcs
       /\ self.multisig_fp.mismatch = FALSE
       /\ ~CarriesFingerprint(txi)
    \/ /\ co.pc \in Bip143SigningPcs
       /\ txi.amount > self.bip143_in

\* what of a session an error leaves as it was
NothingSent == wire' = wire /\ self'.tx_req = self.tx_req

\* C22: phase 2 leaves the wallet path as phase 1 left it.  While it is
\* present, every input sent in phase 2 (to the segwit serialization, the
\* witness pass, the BIP-143 pass or Decred's phase 2) whose address_n
\* without its last two elements is not the wallet path ends the session
\* with ProcessError "Transaction has changed during signing".  With the
\* wallet path absent no reply is refused for its path: a session that a
\* phase-2 input ends as changed has another reason to.
C22_WalletPathChecked ==
    /\ [][co.pc \in Phase2Pcs => self'.wallet_path = self.wallet_path]_vars
    /\ [][co.pc \in Phase2InputPcs /\ LeavesWalletPath(LatestReply)
          => /\ co'.pc = "error"
             /\ err' = [kind |-> "ProcessError", msg |-> ProcessErrorChanged]
             /\ NothingSent]_vars
    /\ [][(/\ co.pc \in Phase2InputPcs
           /\ self.wallet_path = None
           /\ err' = [kind |-> "ProcessError", msg |-> ProcessErrorChanged])
          => RefusedForAnotherReason(LatestReply)]_vars

\* C22 witness: with the wallet path present, the segwit serialization was
\* sent the phase-1 input on another path and the session ended
C22_Witness ==
    /\ co.pc = "error"
    /\ err = [kind |-> "ProcessError", msg |-> ProcessErrorChanged]
    /\ self.wallet_path \notin {None, <<>>}
    /\ host.tampered # <<>>
    /\ host.tampered[1].at = "p2_segwit_input"
    /\ host.tampered[1].sent.script_type = host.tampered[1].was.script_type
    /\ host.tampered[1].sent.address_n # host.tampered[1].was.address_n

\* C22 witnesses of the other passes
C22_WitnessOtherPasses ==
    /\ co.pc = "error"
    /\ self.wallet_path \notin {None, <<>>}
    /\ host.tampered # <<>>
    /\ host.tampered[1].at \in {"p2_witness", "p2_bip143_input", "d2_input"}
    /\ host.tampered[1].sent = [host.tampered[1].was EXCEPT !.address_n = <<2, 0, 0>>]

\* C22 witness of the absent wallet path: an input on a path other than in
\* phase 1 was signed
C22_WitnessAbsent ==
    /\ self.wallet_path = None
    /\ host.tampered # <<>>
    /\ host.tampered[1].sent.address_n # host.tampered[1].was.address_n
    /\ \E k \in 1..Len(wire) :
          /\ HasSignature(wire[k])
          /\ wire[k].req.serialized.signature.digest.txi = host.tampered[1].sent

---------------------------------------------------------------------------
(* The segwit classification in phase 2.                                   *)

SegwitScriptTypes == {"SPENDWITNESS", "SPENDP2SHWITNESS"}

\* the passes of phase 2 for inputs recorded as segwit, and for the others
SegwitPassPcs == {"p2_segwit_input", "p2_witness"}
NonSegwitPassPcs == {"p2_bip143_input", "p2_legacy_input"}

\* C23: in a Bitcoin session phase 2 leaves the segwit map as phase 1 left
\* it, one entry per input, true iff the phase-1 input had a segwit script
\* type.  Inputs recorded as segwit are requested by the segwit
\* serialization and the witness pass only, the others by the legacy or
\* BIP-143 pass only; a signature sent after a request of the witness pass
\* is of an input recorded as segwit and of a segwit script type, any other
\* signature is of an input recorded as non-segwit and of a non-segwit
\* script type; a phase-2 reply with a script type of the other class ends
\* the session with ProcessError, nothing signed or sent.
C23_ClassificationFixed ==
    /\ [][co.pc \in Phase2Pcs => self'.segwit = self.segwit]_vars
    /\ [](self.cls = "Bitcoin" /\ co.pc \in Phase2Pcs =>
            /\ Len(self.segwit) = Len(host.p1_in)
            /\ \A i \in 1..Len(host.p1_in) :
                  self.segwit[i] = (host.p1_in[i].script_type \in SegwitScriptTypes))
    /\ [](self.cls = "Bitcoin" =>
            \A k \in 1..Len(wire) :
                /\ wire[k].at \in SegwitPassPcs =>
                      self.segwit[wire[k].req.request_index + 1]
                /\ wire[k].at \in NonSegwitPassPcs =>
                      ~self.segwit[wire[k].req.request_index + 1]
                /\ HasSignature(wire[k]) =>
                      LET ser == wire[k].req.serialized
                          txi == ser.signature.digest.txi
                      IN  IF wire[k - 1].at = "p2_witness"
                          THEN /\ self.segwit[ser.signature_index + 1]
                               /\ txi.script_type \in SegwitScriptTypes
                          ELSE /\ wire[k - 1].at \in NonSegwitPassPcs
                               /\ ~self.segwit[ser.signature_index + 1]
                               /\ txi.script_type \notin SegwitScriptTypes)
    /\ [][(\/ /\ co.pc \in SegwitPassPcs
              /\ LatestReply.script_type \notin SegwitScriptTypes
           \/ /\ co.pc \in NonSegwitPassPcs
              /\ LatestReply.script_type \in SegwitScriptTypes)
          => /\ co'.pc = "error"
             /\ err'.kind = "ProcessError"
             /\ NothingSent]_vars

\* C23 witness: the witness pass was sent a non-segwit input on the wallet
\* path of phase 1, and the session ended
C23_Witness ==
    /\ co.pc = "error"
    /\ err.kind = "ProcessError"
    /\ host.tampered # <<>>
    /\ host.tampered[1].at = "p2_witness"
    /\ host.tampered[1].was.script_type = "SPENDWITNESS"
    /\ host.tampered[1].sent.script_type = "SPENDADDRESS"
    /\ host.tampered[1].sent.address_n = host.tampered[1].was.address_n
    /\ self.multisig_fp.mismatch

\* C23 witnesses of the other passes
C23_WitnessSerialization ==
    /\ co.pc = "error"
    /\ err.kind = "ProcessError"
    /\ host.tampered # <<>>
    /\ host.tampered[1].at = "p2_segwit_input"
    /\ host.tampered[1].sent.script_type = "SPENDADDRESS"
    /\ host.tampered[1].sent.address_n = host.tampered[1].was.address_n

C23_WitnessBip143 ==
    /\ co.pc = "error"
    /\ err.kind = "ProcessError"
    /\ host.tampered # <<>>
    /\ host.tampered[1].at = "p2_bip143_input"
    /\ host.tampered[1].sent.script_type = "SPENDWITNESS"
    /\ host.tampered[1].sent.address_n = host.tampered[1].was.address_n
    /\ host.tampered[1].sent.amount <= host.tampered[1].was.amount
    /\ self.multisig_fp.mismatch

\* C23 witness of a session that signed inputs of both classes
C23_WitnessMixed ==
    /\ self.cls = "Bitcoin"
    /\ co.pc = "done"
    /\ self.segwit = <<FALSE, TRUE>>
    /\ \E k \in 1..Len(wire) :
          HasSignature(wire[k]) /\ wire[k].req.serialized.signature_index = 0
    /\ \E k \in 1..Len(wire) :
          HasSignature(wire[k]) /\ wire[k].req.serialized.signature_index = 1

---------------------------------------------------------------------------
(* The validation of phase-1 inputs.                                       *)

\* the inputs phase 1 is to reject: a segwit input on a coin without segwit
\* or without amount, any other known input without amount on a coin whose
\* inputs are all signed with BIP-143, an input of an unknown script type
Rejectable(txi) ==
    \/ /\ txi.script_type \in SegwitScriptTypes
       /\ (~self.coin.segwit \/ txi.amount = NoneInt \/ txi.amount = 0)
    \/ /\ txi.script_type \in {"SPENDADDRESS", "SPENDMULTISIG"}
       /\ (self.coin.force_bip143 \/ self.coin.overwintered)
       /\ (txi.amount = NoneInt \/ txi.amount = 0)
    \/ txi.script_type \notin
          SegwitScriptTypes \cup {"SPENDADDRESS", "SPENDMULTISIG"}

\* the first k inputs of phase 1
FirstInputs(k) == SubSeq(host.p1_in, 1, k)

\* what an input adds to bip143_in
Bip143Value(txi) ==
    IF txi.script_type \in SegwitScriptTypes
       \/ self.coin.force_bip143 \/ self.coin.overwintered
    THEN txi.amount ELSE 0

RECURSIVE SumBip143Values(_)
SumBip143Values(s) ==
    IF s = <<>> THEN 0 ELSE Bip143Value(Head(s)) + SumBip143Values(Tail(s))

\* the latest input of phase 1 has been looked at: phase 1 is not waiting
\* for the user to confirm its path
LatestInputValidated == host.p1_in # <<>> /\ co.pc # "p1_foreign"

\* the latest input was rejected with `kind`, the totals and the segwit map
\* as the inputs before it left them
LatestInputRejected(kind) ==
    LET n == Len(host.p1_in) IN
    /\ co.pc = "error"
    /\ err.kind = kind
    /\ Len(self.segwit) = n - 1
    /\ self.total_in = SumInputValues(FirstInputs(n - 1))
    /\ self.bip143_in = SumBip143Values(FirstInputs(n - 1))

\* the session's hash context has the operations phase 1 calls for an input
HasherTakesInputs ==
    /\ HasOp(self.hash143.variant, "add_prevouts")
    /\ HasOp(self.hash143.variant, "add_sequence")

\* C24: a phase-1 input that is segwit on a coin without segwit or without
\* amount, or of a known non-segwit type without amount on a coin forcing
\* BIP-143 or overwintered, or of an unknown script type, is rejected with
\* DataError, total_in, bip143_in and the segwit map as they were before
\* it; an accepted input has exactly one entry in the segwit map.
C24_InputValidation ==
    /\ LatestInputValidated /\ Rejectable(host.p1_in[Len(host.p1_in)])
          => LatestInputRejected("DataError")
    /\ LatestInputValidated /\ ~Rejectable(host.p1_in[Len(host.p1_in)])
          /\ co.pc \in Phase1Pcs
          => Len(self.segwit) = Len(host.p1_in)

\* C24 for the sessions whose hash context has add_prevouts and
\* add_sequence (Decred, overwintered coins): what C24 says, and the totals
\* after the accepted inputs: total_in is the sum of their values (the
\* declared amount, or the amount of the spent output where phase 1 fetches
\* it), bip143_in the sum of the declared amounts phase 1 took.
C24_InputValidationWithHasher ==
    HasherTakesInputs =>
        /\ C24_InputValidation
        /\ co.pc \in Phase1Pcs \ PrevPcs =>
              /\ self.total_in = SumInputValues(FirstInputs(Len(self.segwit)))
              /\ self.bip143_in = SumBip143Values(FirstInputs(Len(self.segwit)))

\* C24 for the sessions whose hash context lacks them: every input, the
\* rejectable ones too, ends the session with AttributeError
C24_InputValidationWithoutHasher ==
    ~HasherTakesInputs /\ host.p1_in # <<>> =>
        /\ Len(host.p1_in) = 1
        /\ LatestInputRejected("AttributeError")

\* the rejections reached
C24_ReachedSegwitDisabled ==
    /\ LatestInputRejected("DataError")
    /\ err.msg = "Segwit not enabled on this coin"
    /\ Len(host.p1_in) = 2

C24_ReachedSegwitNoAmount ==
    /\ LatestInputRejected("DataError")
    /\ err.msg = "Segwit input without amount"
    /\ Len(host.p1_in) = 2
    /\ self.total_in > 0

C24_ReachedNoAmount ==
    /\ LatestInputRejected("DataError")
    /\ err.msg = "Expected input with amount"
    /\ host.p1_in[Len(host.p1_in)].amount = NoneInt

C24_ReachedWrongType ==
    /\ LatestInputRejected("DataError")
    /\ err.msg = "Wrong input script type"
    /\ Len(host.p1_in) = 2

\* a rejectable input ended a session with AttributeError
C24_ReachedAttributeError ==
    /\ LatestInputRejected("AttributeError")
    /\ Rejectable(host.p1_in[1])
    /\ ~self.coin.segwit
    /\ host.p1_in[1].script_type = "SPENDWITNESS"

---------------------------------------------------------------------------
(* The order of the previous-transaction sub-protocol.                     *)

\* the step sent one request: of this type and index, for the previous
\* transaction of the input being processed, awaited at `label`
SendsPrevRequest(type, index, label) ==
    /\ co'.pc = label
    /\ Len(wire') = Len(wire) + 1
    /\ SubSeq(wire', 1, Len(wire)) = wire
    /\ wire'[Len(wire')].at = label
    /\ wire'[Len(wire')].req.request_type = type
    /\ wire'[Len(wire')].req.request_index = index
    /\ wire'[Len(wire')].req.tx_hash = co'.txi.prev_hash

\* the sub-protocol is over with this step
PrevTxOver == co'.pc \notin PrevPcs /\ \A k \in Len(wire) + 1..Len(wire') :
                                           wire'[k].at \notin PrevPcs

NotEnoughOutputs ==
    [kind |-> "ProcessError", msg |-> "Not enough outputs in previous transaction."]

C25_WitnessValue ==
    /\ co.pc = "p1_output"
    /\ Len(host.p1_in) = 1
    /\ host.p1_in[1].prev_index = 1
    /\ host.prev_tx # NoneRec
    /\ host.prev_tx.outputs_cnt = 2
    /\ host.prev_tx.inputs_cnt = 1
    /\ self.total_in = co.prev.total_out
    /\ self.total_in = 2

---------------------------------------------------------------------------
(* The hash context in phase 1.                                            *)

\* what the hash context of a Bitcoin session is to hold after the inputs
\* and outputs phase 1 was sent so far
PrevoutsOf(ins) ==
    [i \in 1..Len(ins) |->
        Item("prevout", [prev_hash |-> ins[i].prev_hash,
                         prev_index |-> ins[i].prev_index])]

SequencesOf(ins) ==
    [i \in 1..Len(ins) |-> write_uint32("sequence", ins[i].sequence)]

\* the outputs folded into h_outputs are the first outputs of phase 1, in
\* order, all of them once phase 1 has moved on from the last
OutputsHashed ==
    /\ Len(self.hash143.h_outputs) <= Len(host.p1_out)
    /\ Len(self.hash143.h_outputs) >= Len(host.p1_out) - 1
    /\ (co.pc \notin {"p1_confirm_output", "error"} =>
           Len(self.hash143.h_outputs) = Len(host.p1_out))
    /\ \A j \in 1..Len(self.hash143.h_outputs) :
          /\ self.hash143.h_outputs[j].t = "output"
          /\ self.hash143.h_outputs[j].v.amount = host.p1_out[j].amount
          /\ self.hash143.h_outputs[j].v.script_pubkey =
                output_derive_script(self.coin, host.p1_out[j]).script_pubkey

MissingHasherOperation ==
    err.kind = "AttributeError" /\ err.msg \in HashOps("DecredPrefixHasher") \cup ZipHashOps

\* C27: in a Bitcoin session no step fails for an operation its hash
\* context lacks; the outpoint of every phase-1 input is in h_prevouts and
\* its sequence in h_sequence, once and in input order, and every phase-1
\* output is in h_outputs, once and in output order.
C27_HasherFoldsPhase1 ==
    self.cls = "Bitcoin" =>
        /\ ~MissingHasherOperation
        /\ self.hash143.h_prevouts = PrevoutsOf(host.p1_in)
        /\ self.hash143.h_sequence = SequencesOf(host.p1_in)
        /\ OutputsHashed

\* C27 for the Bitcoin sessions of overwintered coins, whose hash context
\* (Zip143, Zip243) has every operation
C27_ZipHasherFoldsPhase1 ==
    self.cls = "Bitcoin" /\ self.hash143.variant \in {"Zip143", "Zip243"} =>
        C27_HasherFoldsPhase1

\* C27 for the hash context Bip143: its session ends at the first input
\* with nothing folded
C27_Bip143HasherFails ==
    self.hash143.variant = "Bip143" /\ host.p1_in # <<>> =>
        /\ err = [kind |-> "AttributeError", msg |-> "add_prevouts"]
        /\ self.hash143.h_prevouts = <<>>
        /\ self.hash143.h_sequence = <<>>
        /\ co.pc = "error"

\* two inputs and two outputs were folded by a Zip hash context
C27_ReachedZipFolded ==
    /\ self.hash143.variant = "Zip243"
    /\ Len(self.hash143.h_prevouts) = 2
    /\ Len(self.hash143.h_outputs) = 2
    /\ self.segwit = <<TRUE, FALSE>>
    /\ host.p1_in[1].prev_index # host.p1_in[2].prev_index

---------------------------------------------------------------------------
(* The transaction header.                                                 *)

VersionKinds == {"version", "version_overwintered"}

\* the kinds of the header of the session's coin
HeaderKinds ==
    (IF self.coin.overwintered
     THEN <<"version_overwintered", "version_group_id">> ELSE <<"version">>)
    \o (IF AnySegwit(self.segwit) THEN <<"segwit_marker", "segwit_flag">> ELSE <<>>)
    \o <<"inputs_count">>

\* the requests whose fragment starts a header
HeaderRequests ==
    {k \in 1..Len(wire) :
        \E j \in 1..Len(Fragment(wire[k])) : Fragment(wire[k])[j].t \in VersionKinds}

\* the fragment of request k is the header and then input 0, made from the
\* reply to the phase-2 request for input 0
HeaderBeforeInput0(k) ==
    LET f == Fragment(wire[k]) IN
    /\ Kinds(f) = HeaderKinds \o <<"input">>
    /\ ItemsOfKind(SentStream(k - 1), "input") = <<>>
    /\ k > 1
    /\ wire[k - 1].at \in {"p2_segwit_input", "p2_bip143_input", "p2_legacy_input"}
    /\ wire[k - 1].req.request_index = 0
    /\ f[Len(f)].v.prev_hash = host.p1_in[1].prev_hash
    /\ f[Len(f)].v.prev_index = host.p1_in[1].prev_index

\* the header in the stream sent so far: never more than one, in front of
\* input 0, with marker and flag iff an input is segwit
HeaderWellPlaced ==
    /\ Cardinality(HeaderRequests) <= 1
    /\ \A k \in HeaderRequests : HeaderBeforeInput0(k)
    /\ (co.pc = "done" => (WitnessRegion # <<>>) = AnySegwit(self.segwit))

\* C28: a Bitcoin session writes the transaction header exactly once, in
\* front of the fragment of input 0 whichever pass handles input 0, with
\* the segwit marker and flag iff phase 1 classified an input as segwit,
\* which is iff the stream of the completed session has a witness region.
C28_HeaderOnce ==
    self.cls = "Bitcoin" =>
        /\ HeaderWellPlaced
        /\ co.pc = "done" => Cardinality(HeaderRequests) = 1

\* C28 for the sessions that have an input: once input 0 was handled in
\* phase 2 the header has been sent
C28_HeaderOnceWithInputs ==
    self.cls = "Bitcoin" /\ self.tx.inputs_count >= 1 =>
        /\ HeaderWellPlaced
        /\ (\/ co.pc \in {"p2_output", "p2_witness", "done"}
            \/ co.pc \in {"p2_segwit_input", "p2_bip143_input"} /\ co.i >= 2)
           => Cardinality(HeaderRequests) = 1

\* C28 for the sessions without inputs: no header is ever sent
C28_NoHeaderWithoutInputs ==
    self.cls = "Bitcoin" /\ self.tx.inputs_count = 0 => HeaderRequests = {}

\* a session without inputs completed: its stream is the outputs and the
\* lock time
C28_ReachedNoHeader ==
    /\ self.cls = "Bitcoin"
    /\ co.pc = "done"
    /\ self.tx.inputs_count = 0
    /\ self.tx.outputs_count >= 1
    /\ ~self.coin.overwintered
    /\ Kinds(SentStream(Len(wire)))[1] = "outputs_count"

\* headers reached with and without marker, in front of a segwit input 0
\* and of a non-segwit input 0
C28_ReachedMarkerSegwitFirst ==
    /\ self.cls = "Bitcoin" /\ co.pc = "done"
    /\ self.segwit = <<TRUE, FALSE>>
    /\ "segwit_marker" \in {SentStream(Len(wire))[j].t : j \in 1..Len(SentStream(Len(wire)))}

C28_ReachedMarkerSegwitSecond ==
    /\ self.cls = "Bitcoin" /\ co.pc = "done"
    /\ self.segwit = <<FALSE, TRUE>>
    /\ "segwit_marker" \in {SentStream(Len(wire))[j].t : j \in 1..Len(SentStream(Len(wire)))}

C28_ReachedNoMarker ==
    /\ self.cls = "Bitcoin" /\ co.pc = "done"
    /\ self.segwit = <<FALSE, FALSE>>
    /\ HeaderRequests # {}

---------------------------------------------------------------------------
(* The stream of a Decred session.                                         *)

\* the kinds of a complete Decred transaction: header and inputs, count of
\* outputs and outputs, lock time, expiry, count of inputs and the witness
\* form of the inputs
DecredTransactionKinds ==
    (IF self.coin.overwintered
     THEN <<"version_overwintered", "version_group_id">> ELSE <<"version">>)
    \o <<"inputs_count">>
    \o Repeat("input_decred", self.tx.inputs_count)
    \o <<"outputs_count">>
    \o Repeat("output", self.tx.outputs_count)
    \o <<"lock_time", "expiry", "inputs_count">>
    \o Repeat("input_decred_witness", self.tx.inputs_count)

\* every output phase 1 was sent is in the stream once, in order, and every
\* input in its two forms
DecredDeclaredInStream(stream) ==
    LET ins == ItemsOfKind(stream, "input_decred")
        wits == ItemsOfKind(stream, "input_decred_witness")
        outs == ItemsOfKind(stream, "output")
    IN  /\ Len(outs) = Len(host.p1_out)
        /\ \A j \in 1..Len(outs) :
              /\ outs[j].v.amount = host.p1_out[j].amount
              /\ outs[j].v.script_pubkey =
                    output_derive_script(self.coin, host.p1_out[j]).script_pubkey
        /\ Len(ins) = Len(host.p1_in)
        /\ \A i \in 1..Len(ins) :
              /\ ins[i].v.prev_hash = host.p1_in[i].prev_hash
              /\ ins[i].v.prev_index = host.p1_in[i].prev_index
        /\ Len(wits) = Len(host.p1_in)
        /\ \A i \in 1..Len(wits) :
              wits[i].v.script_sig.signature.key = host.p1_in[i].address_n

SuccessfulDecredSession ==
    /\ self.cls = "Decred"
    /\ co.pc = "done"
    /\ host.tampered = <<>>

\* the request that carries the last output of phase 1: the one for the
\* first input of phase 2
LastOutputReplayed ==
    \A k \in 1..Len(wire) :
        wire[k].at = "p1_output" =>
            (ItemsOfKind(Fragment(wire[k]), "output") = <<>>)
               = (wire[k].req.request_index = 0)

\* C29: the fragments of a successful Decred session, in emission order,
\* are the header and the inputs, the count of outputs and the outputs, the
\* lock time, the expiry, the count of inputs and the witness form of the
\* inputs; every output is in the stream exactly once, the last one
\* replayed from last_output_bytes in front of the first witness input.
C29_DecredStream ==
    SuccessfulDecredSession =>
        /\ Kinds(SentStream(Len(wire))) = DecredTransactionKinds
        /\ DecredDeclaredInStream(SentStream(Len(wire)))

\* C29 for the sessions with at least one input; the requests for outputs
\* carry the outputs before them, so the last output is carried by the
\* request after the first input of phase 2
C29_DecredStreamWithInputs ==
    SuccessfulDecredSession /\ self.tx.inputs_count >= 1 =>
        /\ C29_DecredStream
        /\ LastOutputReplayed
        /\ \E k \in 2..Len(wire) :
              /\ wire[k - 1].at = "d2_input"
              /\ wire[k - 1].req.request_index = 0
              /\ Kinds(Fragment(wire[k]))[Len(Fragment(wire[k])) - 4] = "output"
              /\ Fragment(wire[k])[Len(Fragment(wire[k])) - 4].v.amount
                    = host.p1_out[Len(host.p1_out)].amount

\* C29 for the sessions without inputs: the stream is the count of outputs
\* and all outputs but the last
C29_DecredStreamWithoutInputs ==
    SuccessfulDecredSession /\ self.tx.inputs_count = 0 =>
        Kinds(SentStream(Len(wire))) =
              IF self.tx.outputs_count <= 1 THEN <<>>
              ELSE <<"outputs_count">> \o Repeat("output", self.tx.outputs_count - 1)

\* a successful session lost its last output
C29_ReachedLostOutput ==
    /\ SuccessfulDecredSession
    /\ self.tx.outputs_count = 2
    /\ Len(ItemsOfKind(SentStream(Len(wire)), "output")) = 1
    /\ ~self.coin.negative_fee

\* a successful session with two inputs and two outputs
C29_ReachedComplete ==
    /\ SuccessfulDecredSession
    /\ self.tx.outputs_count = 2
    /\ self.tx.inputs_count = 2

---------------------------------------------------------------------------
(* Decred script versions.                                                 *)

VersionRefused(v) == v # NoneInt /\ v # 0

\* the output the host sent in this step, as an answer to the request of
\* phase 1
LatestOutput == host'.p1_out[Len(host'.p1_out)]

\* the previous output the host sent in this step: the item streamed into
\* the digest of the previous transaction after those of the steps before
LatestPrevOutput == co'.prev.txh[Len(co.prev.txh) + 1].v

OutputFoldsUnchanged ==
    /\ self'.h_first = self.h_first
    /\ self'.hash143 = self.hash143
    /\ self'.total_out = self.total_out
    /\ self'.last_output_bytes = self.last_output_bytes
    /\ ui' = ui

\* C30: in a Decred session an output whose decred_script_version is
\* present and not zero ends the session with an error, before
\* confirm_output is asked for it and before it is added to h_first, the
\* prefix hash or total_out; and the spent output of a previous transaction
\* whose decred_script_version is present and not zero ends the session with
\* ProcessError, total_in unchanged.
C30_ScriptVersionRefused ==
    [][/\ (/\ self.cls = "Decred"
           /\ co.pc = "p1_output"
           /\ VersionRefused(LatestOutput.decred_script_version)
           => /\ co'.pc = "error"
              /\ err' # NoError
              /\ output_derive_script(self.coin, LatestOutput).ok
                    => err' = [kind |-> "ActionCancelled",
                               msg |-> "Cannot send to output with script version != 0"]
              /\ OutputFoldsUnchanged)
       /\ (/\ self.cls = "Decred"
           /\ co.pc = "prev_output"
           /\ co.prev.k = co.txi.prev_index
           /\ VersionRefused(LatestPrevOutput.decred_script_version)
           => /\ co'.pc = "error"
              /\ err' = [kind |-> "ProcessError",
                         msg |-> "Cannot use utxo that has script_version != 0"]
              /\ self'.total_in = self.total_in)]_vars

\* an output with script version 0 or none, and a previous output that is
\* not the spent one, are not refused for their script version
C30_OtherVersionsAccepted ==
    [][/\ (/\ self.cls = "Decred"
           /\ co.pc = "p1_output"
           /\ ~VersionRefused(LatestOutput.decred_script_version)
           => err'.msg # "Cannot send to output with script version != 0")
       /\ (/\ self.cls = "Decred"
           /\ co.pc = "prev_output"
           /\ \/ co.prev.k # co.txi.prev_index
              \/ ~VersionRefused(LatestPrevOutput.decred_script_version)
           => err'.msg # "Cannot use utxo that has script_version != 0")]_vars

\* an output was refused for its script version after an output was
\* confirmed
C30_Witness ==
    /\ self.cls = "Decred"
    /\ err.msg = "Cannot send to output with script version != 0"
    /\ Len(host.p1_out) = 2
    /\ host.p1_out[2].decred_script_version = 1
    /\ Len(self.h_first) = 1
    /\ Len(ui) = 1
    /\ self.total_out = host.p1_out[1].amount

\* the spent output was refused for its script version
C30_WitnessPrev ==
    /\ self.cls = "Decred"
    /\ err.msg = "Cannot use utxo that has script_version != 0"
    /\ co.prev.k = co.txi.prev_index
    /\ co.prev.txh[Len(co.prev.txh)].v.decred_script_version = 1
    /\ co.prev.total_out > 0
    /\ self.total_in = 0

\* a previous output with script version 1 that is not the spent one was
\* streamed and the stream went on
C30_WitnessPrevOther ==
    /\ self.cls = "Decred"
    /\ err.msg # "Cannot use utxo that has script_version != 0"
    /\ \E k \in 1..(Len(co.prev.txh) - 1) :
          /\ co.prev.txh[k].t = "prev_output"
          /\ co.prev.txh[k].v.decred_script_version = 1

---------------------------------------------------------------------------
(* The sizes of the fragment buffers.                                      *)

\* len(txi.prev_hash): a transaction id
PrevHashLen == 32

\* the bytes writers.write_varint writes for n
VarintLen(n) == IF n < 253 THEN 1 ELSE IF n < 65536 THEN 3 ELSE 5

\* len(txi.script_sig) of the script input_derive_script returns: a
\* signature and a public key, a redeem script of a witness program, nothing
\* for a native witness input, the signatures and the redeem script of a
\* multisig input
ScriptSigLen(script_sig) ==
    CASE script_sig.form = "p2pkh_or_p2sh" -> 107
      [] script_sig.form = "p2wpkh_in_p2sh" -> 23
      [] script_sig.form = "p2wsh_in_p2sh" -> 35
      [] script_sig.form = "native_p2wpkh_or_p2wsh" -> 0
      [] OTHER -> 253

\* len(txo_bin.script_pubkey)
ScriptPubkeyLen(script_pubkey) ==
    CASE script_pubkey.form = "p2pkh" -> 25
      [] script_pubkey.form = "p2sh" -> 23
      [] script_pubkey.form = "bech32" -> 22
      [] OTHER -> 2

\* the bytes a writer appends for one item
ByteLen(cls, item) ==
    CASE item.t \in {"version", "version_overwintered", "version_group_id",
                     "lock_time", "expiry"} -> 4
      [] item.t \in {"segwit_marker", "segwit_flag", "inputs_count",
                     "outputs_count"} -> VarintLen(item.v.n)
      [] item.t = "input" ->
           PrevHashLen + 4 + VarintLen(ScriptSigLen(item.v.script_sig))
              + ScriptSigLen(item.v.script_sig) + 4
      [] item.t = "input_decred" -> PrevHashLen + 4 + 1 + 4
      [] item.t = "input_decred_witness" ->
           8 + 4 + 4 + VarintLen(ScriptSigLen(item.v.script_sig))
              + ScriptSigLen(item.v.script_sig)
      [] item.t = "output" ->
           8 + (IF cls = "Decred" THEN 2 ELSE 0)
              + VarintLen(ScriptPubkeyLen(item.v.script_pubkey))
              + ScriptPubkeyLen(item.v.script_pubkey)
      [] OTHER -> 0

RECURSIVE BytesOf(_, _)
BytesOf(cls, stream) ==
    IF stream = <<>> THEN 0
    ELSE ByteLen(cls, Head(stream)) + BytesOf(cls, Tail(stream))

\* signing.py:303-305: the reservation of phase2_serialize_segwit_input
ReservedSegwitInput(script_sig) ==
    7 + PrevHashLen + 4 + ScriptSigLen(script_sig) + 4

\* signing.py:384-386 and 467-469: the reservation of
\* phase2_sign_bip143_input and of phase2_sign_legacy_input
ReservedSignedInput(script_sig) ==
    5 + PrevHashLen + 4 + ScriptSigLen(script_sig) + 4

\* signing.py:482: the reservation of phase2_serialize_output
ReservedOutput(script_pubkey) ==
    5 + 8 + 5 + ScriptPubkeyLen(script_pubkey) + 4

\* decred.py:79: 8 if i == 0 else 0 + 9 + len(txi.prev_hash)
ReservedDecredInput(i) ==
    IF i = 0 THEN 8 ELSE 0 + 9 + PrevHashLen

\* decred.py:95
ReservedDecredOutput(script_pubkey) ==
    4 + 8 + 2 + 4 + ScriptPubkeyLen(script_pubkey)

\* decred.py:163-167: 8 + 4 + len(self.last_output_bytes) if i_sign == 0
\* else 0 + 16 + 4 + len(txi_sign.script_sig)
ReservedDecredWitness(i_sign, last_output_bytes, script_sig) ==
    IF i_sign = 0 THEN 8 + 4 + BytesOf("Decred", last_output_bytes)
    ELSE 0 + 16 + 4 + ScriptSigLen(script_sig)

BufferSites ==
    {"p2_segwit_input", "p2_bip143_input", "p2_legacy_input", "p2_output",
     "p1_input", "p1_output", "d2_input"}

\* the request whose reply was being handled when the fragment of request k
\* was written: the one before it that is no request for a part of a
\* previous transaction (0 if there is none)
RECURSIVE WrittenAfter(_)
WrittenAfter(k) ==
    IF k <= 1 THEN 0
    ELSE IF wire[k - 1].at \in PrevPcs THEN WrittenAfter(k - 1)
    ELSE k - 1

RECURSIVE Filter(_, _)
Filter(stream, kinds) ==
    IF stream = <<>> THEN <<>>
    ELSE (IF Head(stream).t \in kinds THEN <<Head(stream)>> ELSE <<>>)
         \o Filter(Tail(stream), kinds)

HeaderItemKinds ==
    {"version", "version_overwintered", "version_group_id", "segwit_marker",
     "segwit_flag", "inputs_count"}

\* what the function at a site writes into the buffer it reserves
SiteWrites(at) ==
    CASE at \in {"p2_segwit_input", "p2_bip143_input", "p2_legacy_input"} ->
           HeaderItemKinds \cup {"input"}
      [] at = "p1_input" -> HeaderItemKinds \cup {"input_decred"}
      [] at \in {"p2_output", "p1_output"} -> {"outputs_count", "output"}
      [] OTHER -> {"outputs_count", "output", "lock_time", "expiry",
                   "inputs_count", "input_decred_witness"}

\* the part of the fragment of request k its site wrote
SiteFragment(k) == Filter(Fragment(wire[k]), SiteWrites(wire[WrittenAfter(k)].at))

\* the fragment of request k was written into a buffer a site reserved
FromBuffer(k) ==
    /\ WrittenAfter(k) > 0
    /\ wire[WrittenAfter(k)].at \in BufferSites
    /\ SiteFragment(k) # <<>>

\* the reservation of the buffer the fragment of request k was written into
Reserved(k) ==
    LET at == wire[WrittenAfter(k)].at
        i == wire[WrittenAfter(k)].req.request_index
        f == SiteFragment(k)
        last == f[Len(f)].v
    IN  CASE at = "p2_segwit_input" -> ReservedSegwitInput(last.script_sig)
          [] at \in {"p2_bip143_input", "p2_legacy_input"} ->
               ReservedSignedInput(last.script_sig)
          [] at = "p2_output" -> ReservedOutput(last.script_pubkey)
          [] at = "p1_input" -> ReservedDecredInput(i)
          [] at = "p1_output" -> ReservedDecredOutput(last.script_pubkey)
          [] OTHER -> ReservedDecredWitness(i, self.last_output_bytes,
                                            last.script_sig)

Presized(k) == Reserved(k) >= BytesOf(self.cls, SiteFragment(k))

FirstIndex(k) == wire[WrittenAfter(k)].req.request_index = 0

\* C31: every buffer of an input or an output is reserved with at least
\* the number of bytes then written into it, for the first index as for
\* the later ones.
C31_BuffersPresized ==
    \A k \in 1..Len(wire) : FromBuffer(k) => Presized(k)

\* C31 for the sites and the indices where it holds: the outputs of both
\* classes, and the inputs after the first
C31_PresizedAfterTheFirst ==
    \A k \in 1..Len(wire) :
        /\ FromBuffer(k)
        /\ \/ ~FirstIndex(k)
           \/ wire[WrittenAfter(k)].at \in {"p2_output", "p1_output"}
        => Presized(k)

\* the buffer of the first input is smaller than what is written into it,
\* at every site that writes an input
C31_FirstInputOutgrowsBuffer ==
    \A k \in 1..Len(wire) :
        /\ FromBuffer(k)
        /\ FirstIndex(k)
        /\ wire[WrittenAfter(k)].at \notin {"p2_output", "p1_output"}
        => ~Presized(k)

C31_ReachedDecredInput ==
    \E k \in 1..Len(wire) :
        /\ FromBuffer(k) /\ wire[WrittenAfter(k)].at = "p1_input"
        /\ Reserved(k) = 8 /\ BytesOf(self.cls, SiteFragment(k)) = 46

C31_ReachedDecredWitness ==
    \E k \in 1..Len(wire) :
        /\ FromBuffer(k) /\ wire[WrittenAfter(k)].at = "d2_input"
        /\ FirstIndex(k) /\ ~Presized(k)

C31_ReachedSegwitInput ==
    \E k \in 1..Len(wire) :
        /\ FromBuffer(k) /\ wire[WrittenAfter(k)].at = "p2_segwit_input"
        /\ FirstIndex(k) /\ ~Presized(k)

C31_ReachedBip143Input ==
    \E k \in 1..Len(wire) :
        /\ FromBuffer(k) /\ wire[WrittenAfter(k)].at = "p2_bip143_input"
        /\ FirstIndex(k) /\ ~Presized(k)

C31_ReachedLaterInputs ==
    \E k \in 1..Len(wire) :
        /\ FromBuffer(k) /\ ~FirstIndex(k) /\ self.cls = "Decred"
        /\ wire[WrittenAfter(k)].at = "d2_input"

---------------------------------------------------------------------------
(* bip143_in over phase 2.                                                 *)

\* the input the host sent as the answer to request k of phase 2
Phase2Reply(k) ==
    LET i == wire[k].req.request_index
        dev == {t \in 1..Len(host.tampered) :
                   /\ host.tampered[t].kind = "input"
                   /\ host.tampered[t].at = wire[k].at
                   /\ host.tampered[t].i = i}
    IN  IF dev # {} THEN host.tampered[CHOOSE t \in dev : TRUE].sent
        ELSE host.p1_in[i + 1]

\* the requests whose input has been signed through a BIP-143 path: those
\* of the BIP-143 pass and of the witness pass the session went on from
SignedThroughBip143 ==
    {k \in 1..Len(wire) :
        /\ wire[k].at \in Bip143SigningPcs
        /\ k < Len(wire) \/ co.pc = "done"}

RECURSIVE SumSignedAmounts(_)
SumSignedAmounts(ks) ==
    IF ks = {} THEN 0
    ELSE LET k == CHOOSE x \in ks : TRUE
         IN  Phase2Reply(k).amount + SumSignedAmounts(ks \ {k})

Phase2Untouched ==
    /\ self'.total_in = self.total_in
    /\ self'.total_out = self.total_out
    /\ self'.change_out = self.change_out
    /\ self'.wallet_path = self.wallet_path
    /\ self'.segwit = self.segwit

\* C32: bip143_in is never negative; at every point of phase 2 the amounts
\* of the inputs signed through a BIP-143 path add up to what phase 2 took
\* off bip143_in, which is at most what the inputs of phase 1 added to it;
\* a step of phase 2 leaves bip143_in alone or takes the amount of the
\* input it signs off it, and leaves total_in, total_out, change_out, the
\* wallet path and the segwit map unchanged.
C32_Bip143InAccounting ==
    /\ [](self.bip143_in >= 0)
    /\ [](co.pc \in Phase2Pcs \cup {"done"} =>
             /\ SumSignedAmounts(SignedThroughBip143)
                   = SumBip143Values(host.p1_in) - self.bip143_in
             /\ SumSignedAmounts(SignedThroughBip143)
                   <= SumBip143Values(host.p1_in))
    /\ [][co.pc \in Phase2Pcs =>
             /\ Phase2Untouched
             /\ \/ self'.bip143_in = self.bip143_in
                \/ /\ co.pc \in Bip143SigningPcs
                   /\ LatestReply.amount >= 0
                   /\ self'.bip143_in = self.bip143_in - LatestReply.amount]_vars

\* both passes have signed: the session is done, two inputs took their
\* amounts off bip143_in, one in each pass
C32_Witness ==
    /\ co.pc = "done"
    /\ self.cls = "Bitcoin"
    /\ \E j, k \in SignedThroughBip143 :
          wire[j].at = "p2_bip143_input" /\ wire[k].at = "p2_witness"
    /\ self.bip143_in = 0
    /\ SumBip143Values(host.p1_in) >= 2

\* a session is done with an amount left in bip143_in: an input was signed
\* for less than phase 1 was told
C32_WitnessLeft ==
    /\ co.pc = "done"
    /\ SignedThroughBip143 # {}
    /\ self.bip143_in > 0

---------------------------------------------------------------------------
(* The extra-data loop of Bitcoin.get_prevtx_output_value                  *)
(* (signing.py:532-540), as a state machine of its own: the call has       *)
(* written the lock time of the previous transaction into txh and the host *)
(* answers the requests for extra data.  The data of a reply is its        *)
(* length.                                                                 *)

\* signing.py:535: the largest chunk asked for
EXTRA_DATA_CHUNK == 1024

MaxExtraDataLen == 2049     \* tx.extra_data_len ranges up to this
MaxExtraRequests == 4       \* requests for extra data in one call

ExtraDataLens ==
    {0, 1, EXTRA_DATA_CHUNK, EXTRA_DATA_CHUNK + 1, MaxExtraDataLen}

Min(a, b) == IF a <= b THEN a ELSE b

\* helpers.request_tx_extra_data(tx_req, ofs, size, prev_hash)
request_tx_extra_data(B, ofs, size, prev_hash) ==
    LET req == [request_type |-> "TXEXTRADATA",
                extra_data_offset |-> ofs, extra_data_len |-> size,
                tx_hash |-> prev_hash, serialized |-> B.self.tx_req.serialized]
    IN  [B EXCEPT !.wire = Append(@, [req |-> req, at |-> "prev_extra_data"]),
                  !.self.tx_req.serialized = NoneRec,
                  !.co.pc = "prev_extra_data"]

\* signing.py:534-537: the loop test, and the body up to the request
ExtraDataFrom(B) ==
    IF B.co.prev.ofs < B.co.prev.tx.extra_data_len
    THEN request_tx_extra_data(
             B, B.co.prev.ofs,
             Min(EXTRA_DATA_CHUNK, B.co.prev.tx.extra_data_len - B.co.prev.ofs),
             B.co.prev.prev_hash)
    ELSE [B EXCEPT !.co.pc = "prev_digest"]

\* signing.py:532-533: the loop is entered for a coin with extra data
extra_data_loop(B) ==
    IF B.self.coin.extra_data
    THEN ExtraDataFrom([B EXCEPT !.co.prev.ofs = 0])
    ELSE [B EXCEPT !.co.pc = "prev_digest"]

\* signing.py:539-540, resumed with the host's data
prev_extra_data(B, data_len) ==
    ExtraDataFrom(
        [B EXCEPT !.co.prev.txh =
                      Append(@, Item("extra_data",
                                     [ofs |-> B.co.prev.ofs, len |-> data_len])),
                  !.co.prev.ofs = @ + data_len])

\* what the host may answer to a request for `size` bytes: nothing, one
\* byte, what was asked for, one byte more
ExtraDataReplies(size) == {0, 1, size, size + 1}

ExtraInit ==
    /\ \E extra_data \in BOOLEAN, n \in ExtraDataLens :
          /\ self = [cls |-> "Bitcoin", coin |-> [extra_data |-> extra_data],
                     tx_req |-> NewTxRequest]
          /\ co = [pc |-> "prev_lock_time",
                   prev |-> [tx |-> [extra_data_len |-> n], prev_hash |-> 1,
                             txh |-> <<>>, ofs |-> 0]]
    /\ wire = <<>>
    /\ ui = <<>>
    /\ host = [extra |-> <<>>]
    /\ err = NoError

\* the call goes on from the lock time it wrote
EnterExtraData ==
    /\ co.pc = "prev_lock_time"
    /\ Becomes(extra_data_loop(Cur))
    /\ UNCHANGED host

\* the host answers the request for extra data; the call is followed for
\* MaxExtraRequests requests
PrevExtraData ==
    /\ co.pc = "prev_extra_data"
    /\ \E data_len \in ExtraDataReplies(wire[Len(wire)].req.extra_data_len) :
          /\ Len(prev_extra_data(Cur, data_len).wire) <= MaxExtraRequests
          /\ Becomes(prev_extra_data(Cur, data_len))
          /\ host' = [host EXCEPT !.extra = Append(@, data_len)]

ExtraNext == EnterExtraData \/ PrevExtraData

ExtraSpec == ExtraInit /\ [][ExtraNext]_vars

\* the chunks fed to the hasher, in order
ExtraChunks == [k \in 1..Len(co.prev.txh) |-> co.prev.txh[k].v]

\* every request asks for 1..1024 bytes that lie within the extra data
ExtraRequestsWellFormed ==
    \A k \in 1..Len(wire) :
        /\ wire[k].req.extra_data_len >= 1
        /\ wire[k].req.extra_data_len <= EXTRA_DATA_CHUNK
        /\ wire[k].req.extra_data_offset + wire[k].req.extra_data_len
              <= co.prev.tx.extra_data_len

\* the chunks lie one after the other from offset 0 on
ExtraChunksContiguous ==
    \A k \in 1..Len(ExtraChunks) :
        ExtraChunks[k].ofs = IF k = 1 THEN 0
                             ELSE ExtraChunks[k - 1].ofs + ExtraChunks[k - 1].len

\* the loop is over and the chunks cover the extra data, no more
ExtraDataCovered ==
    co.pc = "prev_digest" /\ self.coin.extra_data
        => co.prev.ofs = co.prev.tx.extra_data_len

C33_RequestsWellFormed ==
    /\ ExtraRequestsWellFormed
    /\ ExtraChunksContiguous
    /\ co.prev.ofs >= 0

\* a host that sends 1..size bytes for every request advances ofs with
\* every reply, and the loop ends with the extra data covered
C33_MeasuredRepliesCover ==
    (\A k \in 1..Len(host.extra) :
        host.extra[k] >= 1 /\ host.extra[k] <= wire[k].req.extra_data_len)
    => /\ ExtraDataCovered
       /\ \A j, k \in 1..Len(wire) :
             j < k => wire[j].req.extra_data_offset < wire[k].req.extra_data_offset
       /\ Len(wire) <= co.prev.tx.extra_data_len

\* an empty reply: the same request is sent again
C33_ReachedStalled ==
    /\ Len(wire) >= 3
    /\ wire[Len(wire)].req = wire[Len(wire) - 2].req
    /\ host.extra[Len(wire) - 1] = 0
    /\ co.pc = "prev_extra_data"

\* a reply longer than asked for: the hasher was fed more than the extra
\* data
C33_ReachedOverrun ==
    /\ co.pc = "prev_digest"
    /\ co.prev.ofs > co.prev.tx.extra_data_len

\* three requests of a host that sends what is asked for
C33_ReachedThreeChunks ==
    /\ co.pc = "prev_digest"
    /\ host.extra = <<EXTRA_DATA_CHUNK, EXTRA_DATA_CHUNK, 1>>

---------------------------------------------------------------------------
(* Termination.                                                            *)

\* The host answers every request and the user every prompt: a coroutine
\* that waits is resumed.
FairSpec == Spec /\ WF_vars(Next)

\* the user declined a prompt
UserDeclined == \E u \in 1..Len(ui) : ~ui[u].answer

\* the signer refused the session with a SigningError, the error of a raise
\* statement: a reply that is not well formed, a deviation, a fee below zero
SignerRefused == co.pc = "error" /\ err.kind \notin PythonErrors

Excused == host.tampered # <<>> \/ UserDeclined \/ SignerRefused

WithInputsAndOutputs == self.tx.inputs_count >= 1 /\ self.tx.outputs_count >= 1

\* C34: with a host that answers as in phase 1 and a user who accepts every
\* prompt, a session with at least one input and one output that the signer
\* does not refuse eventually sends TXFINISHED.
C34_EventuallyFinished ==
    (co.pc = "start" /\ WithInputsAndOutputs) ~> (co.pc = "done" \/ Excused)

\* what a session has done so far: the requests sent, the prompts put and
\* answered, and its end
Progress(w, u, pc) ==
    2 * Len(w) + 2 * Len(u)
       + (IF pc \in {"p1_foreign", "p1_confirm_output", "p1_confirm_fee",
                     "p1_confirm_locktime", "p1_confirm_total"} THEN 1 ELSE 0)
       + (IF pc \in {"done", "error"} THEN 2 ELSE 0)

\* no loop of the signer runs without progress: every resumption sends a
\* request, has had a prompt answered or ends the session
C34_EveryStepProgresses ==
    [][Progress(wire', ui', co'.pc) > Progress(wire, ui, co.pc)]_vars

\* the requests and the prompts of a session are bounded by its counts:
\* phase 1 asks for each input once, for its previous transaction, and for
\* each output once; phase 2 for each input at most twice and each output
\* once; the prompts are one for each input and output and three more
C34_ProgressBounded ==
    /\ Len(wire) <= 1 + self.tx.inputs_count * (3 + 1 + MaxInputs + MaxOutputs)
                      + 2 * self.tx.outputs_count
    /\ Len(ui) <= self.tx.inputs_count + self.tx.outputs_count + 3

\* the sessions with inputs and outputs that end with an error of Python
\* are those whose hasher lacks add_prevouts: they end at the first input
C34_UnfinishedSessions ==
    (/\ co.pc = "error"
     /\ WithInputsAndOutputs
     /\ err.kind \in PythonErrors)
    => /\ err.kind = "AttributeError"
       /\ ~HasherTakesInputs
       /\ Len(host.p1_in) = 1
       /\ Len(wire) = 1

\* a host that answers as in phase 1 is never told the transaction changed
C34_HonestHostNeverRefused ==
    (host.tampered = <<>> /\ host.profile # "prevtx" /\ co.pc = "error")
        => err.msg # ProcessErrorChanged

\* every phase sends finitely many requests: one for each input and each
\* output in phase 1 and in the first pass of phase 2, one for each segwit
\* input in the witness pass, and those for the previous transactions
C34_RequestsBounded ==
    \A at \in {"p1_input", "p2_output", "p1_output", "p2_witness",
               "p2_segwit_input", "p2_bip143_input", "d2_input"} :
        \A j, k \in 1..Len(wire) :
            (j < k /\ wire[j].at = at /\ wire[k].at = at)
                => wire[j].req.request_index < wire[k].req.request_index

C34_ReachedFinished ==
    /\ co.pc = "done"
    /\ WithInputsAndOutputs
    /\ ~Excused
    /\ self.tx.inputs_count = 2

C34_ReachedAttributeError ==
    /\ co.pc = "error"
    /\ WithInputsAndOutputs
    /\ ~Excused
    /\ err.kind = "AttributeError"
    /\ self.cls = "Bitcoin"
    /\ ~self.coin.segwit

---------------------------------------------------------------------------
(* One signature for every input.                                          *)

FirstPassSigningPcs == {"p2_bip143_input", "p2_legacy_input", "d2_input"}

\* the requests for input i that were answered by signing it in the first
\* pass: the request after them carries the signature
SignedInFirstPass(i) ==
    {k \in 1..(Len(wire) - 1) :
        /\ wire[k].at \in FirstPassSigningPcs
        /\ wire[k].req.request_index = i
        /\ HasSignature(wire[k + 1])}

\* the requests for input i that were answered by signing it in the witness
\* pass: the request after them carries its witness
SignedInWitnessPass(i) ==
    {k \in 1..(Len(wire) - 1) :
        /\ wire[k].at = "p2_witness"
        /\ wire[k].req.request_index = i
        /\ ItemsOfKind(Fragment(wire[k + 1]), "witness") # <<>>}

\* C35: in a session that reaches TXFINISHED the segwit map has an entry
\* for every input; an input that is not segwit was signed once in the
\* first pass of phase 2 and never in the witness pass, a segwit input was
\* signed once in the witness pass and never in the first pass.
C35_OneSignaturePerInput ==
    co.pc = "done" =>
        /\ Len(self.segwit) = self.tx.inputs_count
        /\ \A i \in 0..(self.tx.inputs_count - 1) :
              IF self.cls = "Bitcoin" /\ self.segwit[i + 1]
              THEN /\ Cardinality(SignedInWitnessPass(i)) = 1
                   /\ SignedInFirstPass(i) = {}
              ELSE /\ Cardinality(SignedInFirstPass(i)) = 1
                   /\ SignedInWitnessPass(i) = {}

\* while a session runs no input is signed twice, and none before phase 1
\* gave it its entry in the segwit map
C35_NeverSignedTwice ==
    \A i \in 0..(self.tx.inputs_count - 1) :
        /\ Cardinality(SignedInFirstPass(i)) + Cardinality(SignedInWitnessPass(i)) <= 1
        /\ SignedInFirstPass(i) \cup SignedInWitnessPass(i) # {}
              => Len(self.segwit) = self.tx.inputs_count

\* a finished Bitcoin session that signed one input in each pass
C35_Witness ==
    /\ co.pc = "done"
    /\ self.cls = "Bitcoin"
    /\ self.tx.inputs_count = 2
    /\ \E i, j \in 0..1 :
          /\ self.segwit[i + 1] /\ ~self.segwit[j + 1]
          /\ SignedInWitnessPass(i) # {}
          /\ SignedInFirstPass(j) # {}

\* a finished Decred session that signed two inputs
C35_WitnessDecred ==
    /\ co.pc = "done"
    /\ self.cls = "Decred"
    /\ self.tx.inputs_count = 2
    /\ SignedInFirstPass(0) # {} /\ SignedInFirstPass(1) # {}

====
